---- MODULE Spec2Model ----
(***************************************************************************)
(* Model of the Hikari Chain privacy module (x/privacy): the keeper's      *)
(* store, the four message handlers of msg_server.go and the crypto        *)
(* helpers they call.                                                      *)
(*                                                                         *)
(* The curve group is modelled by the cyclic group of order CurveN: the    *)
(* point k*G is the number k in 1..CurveN-1, 0 is the point at infinity    *)
(* (encoded as the all-zero coordinates), and OffCurve is a coordinate     *)
(* pair that does not satisfy the curve equation.  Byte strings are        *)
(* sequences of numbers.  A signature is modelled symbolically by the key  *)
(* that made it and the bytes it signs.                                    *)
(*                                                                         *)
(* Every handler is a pure operator from (params, store, message) to the   *)
(* store the handler leaves behind and its response; the store is the one  *)
(* of the context the handler was given.  Discarding the writes of a       *)
(* failed message is the work of the enclosing transaction runner, which   *)
(* is not part of this module.                                             *)
(***************************************************************************)
EXTENDS Integers, Sequences, FiniteSets, TLC

VARIABLES params, deposits, nextDepositIndex, usedNullifiers, balances,
          moduleBalance, supply,
          cachedH, pc, derived, result,
          call, ret

\* the package variable cachedH of crypto/curve.go and, for every caller of
\* H(), its position in H, the point its DeriveH returned and the pointer H
\* returned to it
hvars == <<cachedH, pc, derived, result>>

\* a call of a function of the client library (crypto, client/utils): the
\* function with its arguments, and what it has returned so far
cvars == <<call, ret>>

vars == <<params, deposits, nextDepositIndex, usedNullifiers, balances,
          moduleBalance, supply, hvars, cvars>>

(***************************************************************************)
(* Bounds of the model.                                                    *)
(***************************************************************************)
\* deposits created per run, over all denominations
MaxDeposits == 3
\* public balance of every account, per denomination, at the start
InitialBalance == 3
\* goroutines that call H() without an order between them
MaxCallers == 3
\* deposits DepositsByRange returns at most (1000 in the code, scaled to
\* the stores of the model)
maxRangeSize == 2

(***************************************************************************)
(* Curve arithmetic (crypto/curve.go).                                     *)
(***************************************************************************)
CurveN == 7
OffCurve == -1
\* the zero value of a *ECPoint
NilPointer == -2

IsOnCurve(p) == p \in 1..(CurveN - 1)
ScalarBaseMult(k) == k % CurveN
ScalarMult(k, p) == (k * p) % CurveN
PointAdd(p, q) == (p + q) % CurveN

\* try-and-increment hash of a point's bytes to a curve point: a fixed map
\* into the points of the group
HashToPoint(p) == ((p * p + 2) % (CurveN - 1)) + 1

\* I = x * Hp(P)
GenerateNullifier(oneTimePrivKey, oneTimeAddr) ==
    ScalarMult(oneTimePrivKey, HashToPoint(oneTimeAddr))

(***************************************************************************)
(* Wire values (types.ECPoint, byte strings).                              *)
(***************************************************************************)
CoordLen == 32
CompressedLen == 33
SignatureLen == 64
NonceLen == 12
NoteOverhead == 48

\* types.ECPoint: the lengths of X and Y and the pair they encode
ECPoint(xl, yl, p) == [xlen |-> xl, ylen |-> yl, pt |-> p]
GoodPoint(p) == ECPoint(CoordLen, CoordLen, p)

\* nullifier bytes: their length and, for 33 bytes, the point they
\* decompress to (OffCurve when X has no square root)
NullBytes(l, p) == [len |-> l, pt |-> p]
NoNullifier == NullBytes(0, OffCurve)
CompressedPoint(p) == NullBytes(CompressedLen, p)

\* a signature: its length, the private key that made it, the bytes signed
Sig(l, k, m) == [len |-> l, key |-> k, msg |-> m]
NoSignature == Sig(0, 0, <<>>)

(***************************************************************************)
(* x/privacy/types/params.go                                               *)
(***************************************************************************)
DefaultParams ==
    [Enabled |-> FALSE, AllowedDenoms |-> {}, MinShieldAmounts |-> <<>>,
     MaxDepositsPerTx |-> 16, MerkleTreeDepth |-> 32,
     ProofSystem |-> "groth16", MaxMemoSize |-> 512,
     NullifierCacheDuration |-> 100000, Phase |-> "phase1"]

\* a validation without the limit on the memo size
ValidateParams_AnyMemoSize(p) ==
    IF p.MaxDepositsPerTx = 0 THEN FALSE
    ELSE IF p.MaxDepositsPerTx > 128 THEN FALSE
    ELSE IF p.MerkleTreeDepth = 0 \/ p.MerkleTreeDepth > 64 THEN FALSE
    ELSE IF p.Phase # "phase1" /\ p.Phase # "phase2" THEN FALSE
    ELSE IF p.ProofSystem # "groth16" /\ p.ProofSystem # "plonk" THEN FALSE
    ELSE IF p.NullifierCacheDuration < 0 THEN FALSE
    ELSE TRUE

ValidateParams(p) ==
    IF p.MaxDepositsPerTx = 0 THEN FALSE
    ELSE IF p.MaxDepositsPerTx > 128 THEN FALSE
    ELSE IF p.MerkleTreeDepth = 0 \/ p.MerkleTreeDepth > 64 THEN FALSE
    ELSE IF p.Phase # "phase1" /\ p.Phase # "phase2" THEN FALSE
    ELSE IF p.ProofSystem # "groth16" /\ p.ProofSystem # "plonk" THEN FALSE
    ELSE IF p.MaxMemoSize > 4096 THEN FALSE
    ELSE IF p.NullifierCacheDuration < 0 THEN FALSE
    ELSE TRUE

(***************************************************************************)
(* Strings: account addresses and decimal amounts, as sequences of         *)
(* character codes (the digits are 0..9).                                  *)
(***************************************************************************)
Alice == <<10>>
Bob == <<11>>
Malformed == <<12>>
Accounts == {Alice, Bob}
Minus == 45

\* sdk.AccAddressFromBech32
AccAddressFromBech32(s) == s \in Accounts

RECURSIVE DigitsValue(_)
DigitsValue(s) ==
    IF Len(s) = 0 THEN 0
    ELSE 10 * DigitsValue(SubSeq(s, 1, Len(s) - 1)) + s[Len(s)]

IsDigits(s) == Len(s) > 0 /\ \A i \in 1..Len(s) : s[i] \in 0..9

\* math.NewIntFromString: an optional sign, then decimal digits
NewIntFromString(s) ==
    IF IsDigits(s) THEN [ok |-> TRUE, val |-> DigitsValue(s)]
    ELSE IF Len(s) > 1 /\ s[1] = Minus /\ IsDigits(Tail(s))
         THEN [ok |-> TRUE, val |-> 0 - DigitsValue(Tail(s))]
    ELSE [ok |-> FALSE, val |-> 0]

(***************************************************************************)
(* Signatures (crypto/signature.go).                                       *)
(***************************************************************************)
\* a verification that does not look at the bytes signed
VerifySignature_AnyMessage(pubKey, message, signature) ==
    IF Len(message) = 0 \/ signature.len # SignatureLen THEN FALSE
    ELSE IF ~IsOnCurve(pubKey) THEN FALSE
    ELSE ScalarBaseMult(signature.key) = pubKey

\* VerifySignature: ParsePubKey refuses a key that is not on the curve; the
\* ECDSA check passes for the key that signed exactly these bytes
VerifySignature(pubKey, message, signature) ==
    IF Len(message) = 0 \/ signature.len # SignatureLen THEN FALSE
    ELSE IF ~IsOnCurve(pubKey) THEN FALSE
    ELSE ScalarBaseMult(signature.key) = pubKey /\ signature.msg = message

\* Nullifier.Bytes(): the compressed point
NullifierMessage(pt) == <<CompressedLen, pt>>

\* nullifier || recipient || amount, with no separators
UnshieldMessage(pt, recipientAddr, amount) ==
    NullifierMessage(pt) \o recipientAddr \o amount

SignNullifier(oneTimePrivKey, pt) ==
    Sig(SignatureLen, oneTimePrivKey, NullifierMessage(pt))

SignUnshield(oneTimePrivKey, pt, recipientAddr, amount) ==
    Sig(SignatureLen, oneTimePrivKey, UnshieldMessage(pt, recipientAddr, amount))

CryptoVerifyNullifierSignature(oneTimeAddr, pt, signature) ==
    IF signature.len # SignatureLen THEN FALSE
    ELSE VerifySignature(oneTimeAddr, NullifierMessage(pt), signature)

CryptoVerifyUnshieldSignature(oneTimeAddr, pt, recipientAddr, amount, signature) ==
    IF signature.len # SignatureLen THEN FALSE
    ELSE IF Len(recipientAddr) = 0 \/ Len(amount) = 0 THEN FALSE
    ELSE VerifySignature(oneTimeAddr,
                         UnshieldMessage(pt, recipientAddr, amount), signature)

\* NullifierFromBytes: 33 bytes that decompress to a point on the curve
NullifierFromBytes(n) == n.len = CompressedLen /\ IsOnCurve(n.pt)

(***************************************************************************)
(* keeper/crypto.go                                                        *)
(***************************************************************************)
\* convertToECPoint: nil unless both coordinates are 32 bytes
convertToECPoint(point) == point.xlen = CoordLen /\ point.ylen = CoordLen

\* Keeper.VerifyNullifierSignature: TRUE when it returns no error
VerifyNullifierSignature(deposit, nullifier, signature) ==
    IF nullifier.len = 0 THEN FALSE
    ELSE IF signature.len # SignatureLen THEN FALSE
    ELSE IF ~convertToECPoint(deposit.OneTimeAddress.Address) THEN FALSE
    ELSE IF ~NullifierFromBytes(nullifier) THEN FALSE
    ELSE CryptoVerifyNullifierSignature(deposit.OneTimeAddress.Address.pt,
                                        nullifier.pt, signature)

\* Keeper.VerifyUnshieldSignature: TRUE when it returns no error
VerifyUnshieldSignature(deposit, nullifier, recipientAddr, amount, signature) ==
    IF nullifier.len = 0 THEN FALSE
    ELSE IF Len(recipientAddr) = 0 THEN FALSE
    ELSE IF Len(amount) = 0 THEN FALSE
    ELSE IF signature.len # SignatureLen THEN FALSE
    ELSE IF ~convertToECPoint(deposit.OneTimeAddress.Address) THEN FALSE
    ELSE IF ~NullifierFromBytes(nullifier) THEN FALSE
    ELSE CryptoVerifyUnshieldSignature(deposit.OneTimeAddress.Address.pt,
                                       nullifier.pt, recipientAddr, amount,
                                       signature)

\* Keeper.ValidateECPointOnCurve (no handler calls it)
ValidateECPointOnCurve(point) ==
    convertToECPoint(point) /\ IsOnCurve(point.pt)

(***************************************************************************)
(* keeper/keeper.go: the store.  A store is the record                     *)
(* [deposits, next, used, bal, mod, supply].                               *)
(***************************************************************************)
Denoms == {"ulight", "uphoton"}

DepositKey(denom, index) == <<denom, index>>

GetNextDepositIndex(st, denom) == st.next[denom]

SetNextDepositIndex(st, denom, index) ==
    [st EXCEPT !.next = [st.next EXCEPT ![denom] = index]]

\* returns the current index and leaves the counter as it was
IncrementDepositIndex_Stuck(st, denom) ==
    [index |-> GetNextDepositIndex(st, denom), st |-> st]

\* returns the current index and stores current + 1
IncrementDepositIndex(st, denom) ==
    [index |-> GetNextDepositIndex(st, denom),
     st |-> SetNextDepositIndex(st, denom, GetNextDepositIndex(st, denom) + 1)]

\* a write that drops the other deposits
SetDeposit_Alone(st, deposit) ==
    [st EXCEPT !.deposits =
        [k \in {DepositKey(deposit.Denom, deposit.Index)} |-> deposit]]

SetDeposit(st, deposit) ==
    LET key == DepositKey(deposit.Denom, deposit.Index)
    IN [st EXCEPT !.deposits =
            [k \in DOMAIN st.deposits \cup {key} |->
                IF k = key THEN deposit ELSE st.deposits[k]]]

HasDeposit(st, denom, index) == DepositKey(denom, index) \in DOMAIN st.deposits

GetDeposit(st, denom, index) == st.deposits[DepositKey(denom, index)]

\* a lookup that never finds the record
CheckNullifierUsed_Blind(st, nullifier) == FALSE

\* store.Get(NullifierKey(nullifier)) != nil
CheckNullifierUsed(st, nullifier) == nullifier \in DOMAIN st.used

\* a write that is lost
SetNullifierUsed_Lost(st, usedNullifier) == st

SetNullifierUsed(st, usedNullifier) ==
    [st EXCEPT !.used =
        [n \in DOMAIN st.used \cup {usedNullifier.Nullifier} |->
            IF n = usedNullifier.Nullifier THEN usedNullifier ELSE st.used[n]]]

(***************************************************************************)
(* The bank keeper, as the handlers use it.                                *)
(***************************************************************************)
CanSendFromAccount(st, addr, denom, amount) == st.bal[addr][denom] >= amount

SendCoinsFromAccountToModule(st, addr, denom, amount) ==
    [st EXCEPT !.bal = [st.bal EXCEPT ![addr][denom] = @ - amount],
               !.mod = [st.mod EXCEPT ![denom] = @ + amount]]

\* a burn that leaves the coins in the module account
BurnCoins_Kept(st, denom, amount) == st

BurnCoins(st, denom, amount) ==
    [st EXCEPT !.mod = [st.mod EXCEPT ![denom] = @ - amount],
               !.supply = [st.supply EXCEPT ![denom] = @ - amount]]

MintCoins(st, denom, amount) ==
    [st EXCEPT !.mod = [st.mod EXCEPT ![denom] = @ + amount],
               !.supply = [st.supply EXCEPT ![denom] = @ + amount]]

SendCoinsFromModuleToAccount(st, addr, denom, amount) ==
    [st EXCEPT !.mod = [st.mod EXCEPT ![denom] = @ - amount],
               !.bal = [st.bal EXCEPT ![addr][denom] = @ + amount]]

(***************************************************************************)
(* keeper/msg_server.go                                                    *)
(***************************************************************************)
\* validateECPoint: only the two lengths are checked
\* a check that passes any point
validateECPoint_Any(point) == TRUE

validateECPoint(point) == point.xlen = CoordLen /\ point.ylen = CoordLen

\* what a handler returns: the error ("ok" for none), the index of the input
\* or output it failed at (-1 when the error is about no input or output), the
\* indices of the response, and the store it leaves
Result(err, at, indices, st) ==
    [err |-> err, at |-> at, indices |-> indices, st |-> st]

DenomAllowed(p, denom) == denom \in p.AllowedDenoms

\* a minimum-amount check that checks nothing
CheckMinShieldAmount_Skipped(p, denom, amount) == "ok"

\* a minimum-amount check that also refuses the minimum itself
CheckMinShieldAmount_Exclusive(p, denom, amount) ==
    IF denom \in DOMAIN p.MinShieldAmounts /\ Len(p.MinShieldAmounts[denom]) # 0
          /\ amount <= NewIntFromString(p.MinShieldAmounts[denom]).val
    THEN "ErrAmountBelowMinimum"
    ELSE "ok"

\* the minimum-amount check of Shield: "ok" or the error it returns
CheckMinShieldAmount(p, denom, amount) ==
    IF denom \in DOMAIN p.MinShieldAmounts /\ Len(p.MinShieldAmounts[denom]) # 0
    THEN LET min == NewIntFromString(p.MinShieldAmounts[denom])
         IN IF ~min.ok THEN "ErrInvalidAmount"
            ELSE IF amount < min.val THEN "ErrAmountBelowMinimum"
            ELSE "ok"
    ELSE "ok"

NewDeposit(denom, index, commitment, oneTimeAddress, encryptedNote) ==
    [Denom |-> denom, Index |-> index, Commitment |-> commitment,
     OneTimeAddress |-> oneTimeAddress, EncryptedNote |-> encryptedNote,
     Nullifier |-> NoNullifier]

Shield(p, st, msg) ==
    IF ~p.Enabled THEN Result("ErrModuleDisabled", -1, <<>>, st)
    ELSE IF ~AccAddressFromBech32(msg.Sender)
         THEN Result("ErrInvalidAddress", -1, <<>>, st)
    ELSE IF ~DenomAllowed(p, msg.Amount.Denom)
         THEN Result("ErrDenomNotAllowed", -1, <<>>, st)
    ELSE IF ~(msg.Amount.Amount > 0)
         THEN Result("ErrInvalidAmount", -1, <<>>, st)
    ELSE IF CheckMinShieldAmount(p, msg.Amount.Denom, msg.Amount.Amount) # "ok"
         THEN Result(CheckMinShieldAmount(p, msg.Amount.Denom, msg.Amount.Amount),
                     -1, <<>>, st)
    ELSE IF ~validateECPoint(msg.OneTimeAddress.Address)
         THEN Result("ErrInvalidOneTimeAddress", -1, <<>>, st)
    ELSE IF ~validateECPoint(msg.OneTimeAddress.TxPublicKey)
         THEN Result("ErrInvalidOneTimeAddress", -1, <<>>, st)
    ELSE IF ~validateECPoint(msg.Commitment)
         THEN Result("ErrInvalidCommitment", -1, <<>>, st)
    ELSE IF msg.EncryptedNote.EncryptedData = 0
         THEN Result("ErrInvalidNote", -1, <<>>, st)
    ELSE IF msg.EncryptedNote.EncryptedData > p.MaxMemoSize + NoteOverhead
         THEN Result("ErrMemoTooLarge", -1, <<>>, st)
    ELSE IF msg.EncryptedNote.Nonce # NonceLen
         THEN Result("ErrInvalidNote", -1, <<>>, st)
    ELSE IF ~validateECPoint(msg.EncryptedNote.EphemeralKey)
         THEN Result("ErrInvalidNote", -1, <<>>, st)
    ELSE IF ~CanSendFromAccount(st, msg.Sender, msg.Amount.Denom, msg.Amount.Amount)
         THEN Result("ErrInsufficientFunds", -1, <<>>, st)
    ELSE
      LET burned == BurnCoins(SendCoinsFromAccountToModule(
                        st, msg.Sender, msg.Amount.Denom, msg.Amount.Amount),
                        msg.Amount.Denom, msg.Amount.Amount)
          inc == IncrementDepositIndex(burned, msg.Amount.Denom)
          deposit == NewDeposit(msg.Amount.Denom, inc.index, msg.Commitment,
                                msg.OneTimeAddress, msg.EncryptedNote)
      IN Result("ok", -1, <<inc.index>>, SetDeposit(inc.st, deposit))

UsedNullifier(nullifier, denom) == [Nullifier |-> nullifier, Denom |-> denom]

\* one pass of the input loop of PrivateTransfer: the error and the store
ProcessInput(p, st, denom, input) ==
    IF input.Nullifier.len = 0 THEN [err |-> "ErrInvalidNullifier", st |-> st]
    ELSE IF CheckNullifierUsed(st, input.Nullifier)
         THEN [err |-> "ErrNullifierAlreadyUsed", st |-> st]
    ELSE IF p.Phase = "phase1"
         THEN IF ~HasDeposit(st, denom, input.DepositIndex)
                   THEN [err |-> "ErrDepositNotFound", st |-> st]
              ELSE IF input.Signature.len = 0
                   THEN [err |-> "ErrInvalidSignature", st |-> st]
              ELSE IF ~VerifyNullifierSignature(
                          GetDeposit(st, denom, input.DepositIndex),
                          input.Nullifier, input.Signature)
                   THEN [err |-> "ErrInvalidSignature", st |-> st]
              ELSE [err |-> "ok",
                    st |-> SetNullifierUsed(
                             SetDeposit(st,
                               [GetDeposit(st, denom, input.DepositIndex)
                                   EXCEPT !.Nullifier = input.Nullifier]),
                             UsedNullifier(input.Nullifier, denom))]
    ELSE [err |-> "ok",
          st |-> SetNullifierUsed(st, UsedNullifier(input.Nullifier, denom))]

\* the input loop, from input i (counted from 1) on
RECURSIVE ProcessInputs(_, _, _, _, _)
ProcessInputs(p, st, denom, inputs, i) ==
    IF i > Len(inputs) THEN Result("ok", -1, <<>>, st)
    ELSE LET r == ProcessInput(p, st, denom, inputs[i])
         IN IF r.err # "ok" THEN Result(r.err, i - 1, <<>>, r.st)
            ELSE ProcessInputs(p, r.st, denom, inputs, i + 1)

\* the checks of one output: "ok" or the error
ValidateOutput(denom, output) ==
    IF output.Denom # denom THEN "ErrInvalidDenom"
    ELSE IF ~validateECPoint(output.OneTimeAddress.Address)
         THEN "ErrInvalidOneTimeAddress"
    ELSE IF ~validateECPoint(output.OneTimeAddress.TxPublicKey)
         THEN "ErrInvalidOneTimeAddress"
    ELSE IF ~validateECPoint(output.Commitment) THEN "ErrInvalidCommitment"
    ELSE IF output.EncryptedNote.EncryptedData = 0 THEN "ErrInvalidNote"
    ELSE IF output.EncryptedNote.Nonce # NonceLen THEN "ErrInvalidNote"
    ELSE IF ~validateECPoint(output.EncryptedNote.EphemeralKey)
         THEN "ErrInvalidNote"
    ELSE "ok"

\* the output loop, from output i (counted from 1) on
RECURSIVE ProcessOutputs(_, _, _, _, _)
ProcessOutputs(st, denom, outputs, i, indices) ==
    IF i > Len(outputs) THEN Result("ok", -1, indices, st)
    ELSE IF ValidateOutput(denom, outputs[i]) # "ok"
         THEN Result(ValidateOutput(denom, outputs[i]), i - 1, <<>>, st)
    ELSE LET inc == IncrementDepositIndex(st, denom)
             deposit == NewDeposit(denom, inc.index, outputs[i].Commitment,
                                   outputs[i].OneTimeAddress,
                                   outputs[i].EncryptedNote)
         IN ProcessOutputs(SetDeposit(inc.st, deposit), denom, outputs, i + 1,
                           Append(indices, inc.index))

\* the part of PrivateTransfer after the input loop
FinishTransfer(p, st, msg) ==
    IF ~validateECPoint(msg.BalanceCommitment)
    THEN Result("ErrInvalidBalanceCommitment", -1, <<>>, st)
    ELSE IF p.Phase = "phase2" /\ msg.ZkProof = 0
         THEN Result("ErrInvalidZKProof", -1, <<>>, st)
    ELSE ProcessOutputs(st, msg.Denom, msg.Outputs, 1, <<>>)

\* a transfer that does not look at params.Enabled
PrivateTransfer_AlwaysEnabled(p, st, msg) ==
    IF ~DenomAllowed(p, msg.Denom)
    THEN Result("ErrDenomNotAllowed", -1, <<>>, st)
    ELSE IF Len(msg.Inputs) = 0 THEN Result("ErrEmptyInputs", -1, <<>>, st)
    ELSE IF Len(msg.Inputs) > p.MaxDepositsPerTx
         THEN Result("ErrTooManyInputs", -1, <<>>, st)
    ELSE IF Len(msg.Outputs) = 0 THEN Result("ErrEmptyOutputs", -1, <<>>, st)
    ELSE IF Len(msg.Outputs) > p.MaxDepositsPerTx
         THEN Result("ErrTooManyOutputs", -1, <<>>, st)
    ELSE LET r == ProcessInputs(p, st, msg.Denom, msg.Inputs, 1)
         IN IF r.err # "ok" THEN r ELSE FinishTransfer(p, r.st, msg)

\* a transfer that does not count its inputs and outputs
PrivateTransfer_Uncounted(p, st, msg) ==
    IF ~p.Enabled THEN Result("ErrModuleDisabled", -1, <<>>, st)
    ELSE IF ~DenomAllowed(p, msg.Denom)
         THEN Result("ErrDenomNotAllowed", -1, <<>>, st)
    ELSE LET r == ProcessInputs(p, st, msg.Denom, msg.Inputs, 1)
         IN IF r.err # "ok" THEN r ELSE FinishTransfer(p, r.st, msg)

PrivateTransfer(p, st, msg) ==
    IF ~p.Enabled THEN Result("ErrModuleDisabled", -1, <<>>, st)
    ELSE IF ~DenomAllowed(p, msg.Denom)
         THEN Result("ErrDenomNotAllowed", -1, <<>>, st)
    ELSE IF Len(msg.Inputs) = 0 THEN Result("ErrEmptyInputs", -1, <<>>, st)
    ELSE IF Len(msg.Inputs) > p.MaxDepositsPerTx
         THEN Result("ErrTooManyInputs", -1, <<>>, st)
    ELSE IF Len(msg.Outputs) = 0 THEN Result("ErrEmptyOutputs", -1, <<>>, st)
    ELSE IF Len(msg.Outputs) > p.MaxDepositsPerTx
         THEN Result("ErrTooManyOutputs", -1, <<>>, st)
    ELSE LET r == ProcessInputs(p, st, msg.Denom, msg.Inputs, 1)
         IN IF r.err # "ok" THEN r ELSE FinishTransfer(p, r.st, msg)

\* the release of the coins at the end of Unshield
MintToRecipient(st, recipient, denom, amount) ==
    SendCoinsFromModuleToAccount(MintCoins(st, denom, amount),
                                 recipient, denom, amount)

\* the phase-1 block of Unshield: the error and the store
UnshieldPhase1(st, msg) ==
    IF ~HasDeposit(st, msg.Denom, msg.DepositIndex)
    THEN [err |-> "ErrDepositNotFound", st |-> st]
    ELSE IF msg.Signature.len = 0
         THEN [err |-> "ErrInvalidSignature", st |-> st]
    ELSE IF ~VerifyUnshieldSignature(
                GetDeposit(st, msg.Denom, msg.DepositIndex), msg.Nullifier,
                msg.Recipient, msg.Amount, msg.Signature)
         THEN [err |-> "ErrInvalidSignature", st |-> st]
    ELSE [err |-> "ok",
          st |-> SetDeposit(st, [GetDeposit(st, msg.Denom, msg.DepositIndex)
                                    EXCEPT !.Nullifier = msg.Nullifier])]

\* the part of Unshield after the phase-1 block
FinishUnshield(p, st, msg) ==
    IF p.Phase = "phase2" /\ msg.ZkProof = 0
    THEN Result("ErrInvalidZKProof", -1, <<>>, st)
    ELSE Result("ok", -1, <<>>,
                MintToRecipient(
                    SetNullifierUsed(st, UsedNullifier(msg.Nullifier, msg.Denom)),
                    msg.Recipient, msg.Denom, NewIntFromString(msg.Amount).val))

Unshield(p, st, msg) ==
    IF ~p.Enabled THEN Result("ErrModuleDisabled", -1, <<>>, st)
    ELSE IF ~AccAddressFromBech32(msg.Recipient)
         THEN Result("ErrInvalidAddress", -1, <<>>, st)
    ELSE IF ~DenomAllowed(p, msg.Denom)
         THEN Result("ErrDenomNotAllowed", -1, <<>>, st)
    ELSE IF ~NewIntFromString(msg.Amount).ok
            \/ ~(NewIntFromString(msg.Amount).val > 0)
         THEN Result("ErrInvalidAmount", -1, <<>>, st)
    ELSE IF msg.Nullifier.len = 0
         THEN Result("ErrInvalidNullifier", -1, <<>>, st)
    ELSE IF CheckNullifierUsed(st, msg.Nullifier)
         THEN Result("ErrNullifierAlreadyUsed", -1, <<>>, st)
    ELSE IF ~validateECPoint(msg.Commitment)
         THEN Result("ErrInvalidCommitment", -1, <<>>, st)
    ELSE IF p.Phase = "phase1"
         THEN LET r == UnshieldPhase1(st, msg)
              IN IF r.err # "ok" THEN Result(r.err, -1, <<>>, r.st)
                 ELSE FinishUnshield(p, r.st, msg)
    ELSE FinishUnshield(p, st, msg)

\* UpdateParams: the error and the parameters stored afterwards
Authority == <<13>>

\* an update that checks neither the authority nor the parameters
UpdateParams_Unchecked(p, msg) == [err |-> "ok", params |-> msg.Params]

UpdateParams(p, msg) ==
    IF msg.Authority # Authority THEN [err |-> "ErrInvalidSigner", params |-> p]
    ELSE IF ~ValidateParams(msg.Params)
         THEN [err |-> "ErrInvalidParams", params |-> p]
    ELSE [err |-> "ok", params |-> msg.Params]

(***************************************************************************)
(* The messages the model submits.                                         *)
(***************************************************************************)
\* one-time private keys; key k owns the one-time address k*G
Keys == {1, 2}

OneTimeAddr(k) == ScalarBaseMult(k)

\* the key image of key k
KeyImage(k) == CompressedPoint(GenerateNullifier(k, OneTimeAddr(k)))

\* second generator of the commitments
HPoint == HashToPoint(0)

\* C = amount*H + blinding*G
CreateCommitment(amount, blinding) ==
    PointAdd(ScalarMult(amount, HPoint), ScalarBaseMult(blinding))

\* the commitment the client makes for an amount (the blinding is fixed)
Commit(amount) == GoodPoint(CreateCommitment(amount, amount))

TxKey == GoodPoint(ScalarBaseMult(3))

Note(data, nonce, ephemeralKey) ==
    [EncryptedData |-> data, Nonce |-> nonce, EphemeralKey |-> ephemeralKey]
GoodNote == Note(56, NonceLen, TxKey)

Address(point) == [Address |-> point, TxPublicKey |-> TxKey]

ShieldMsg(sender, denom, amount, oneTimeAddress, commitment, note) ==
    [Sender |-> sender, Amount |-> [Denom |-> denom, Amount |-> amount],
     OneTimeAddress |-> oneTimeAddress, Commitment |-> commitment,
     EncryptedNote |-> note]

\* the client shields amount k to the one-time address of key k
HonestShield(k, denom) ==
    ShieldMsg(Alice, denom, k, Address(GoodPoint(OneTimeAddr(k))), Commit(k),
              GoodNote)

ShieldMsgs ==
    {HonestShield(k, d) : k \in Keys, d \in Denoms}
    \cup {ShieldMsg(Alice, "ulight", 1, Address(ECPoint(31, CoordLen, 1)), Commit(1), GoodNote),
          ShieldMsg(Alice, "ulight", 1, Address(GoodPoint(OffCurve)), GoodPoint(0), GoodNote),
          ShieldMsg(Malformed, "ulight", 1, Address(GoodPoint(1)), Commit(1), GoodNote)}

Input(nullifier, index, signature) ==
    [Nullifier |-> nullifier, DepositIndex |-> index, Signature |-> signature]

\* key k spends the deposit at index with the key image of key n
Spend(k, n, index) ==
    Input(KeyImage(n), index, SignNullifier(k, KeyImage(n).pt))

Indices == 0..1

SpendInputs == {Spend(k, n, i) : k \in Keys, n \in Keys, i \in Indices}

Output(denom, oneTimeAddress, commitment, note) ==
    [Denom |-> denom, OneTimeAddress |-> oneTimeAddress,
     Commitment |-> commitment, EncryptedNote |-> note]

\* an output of amount k to the one-time address of key k
GoodOutput(denom, k) ==
    Output(denom, Address(GoodPoint(OneTimeAddr(k))), Commit(k), GoodNote)

TransferMsg(denom, inputs, outputs, balanceCommitment, zkProof) ==
    [Denom |-> denom, Inputs |-> inputs, Outputs |-> outputs,
     BalanceCommitment |-> balanceCommitment, ZkProof |-> zkProof]

InputLists ==
    {<<in>> : in \in SpendInputs}
    \cup {<<Input(KeyImage(1), 0, NoSignature)>>}
    \cup {<<Spend(k, k, 0), in>> :
            k \in Keys, in \in {Spend(j, j, i) : j \in Keys, i \in Indices}}

OutputLists(d) ==
    {<<GoodOutput(d, 2)>>,
     <<GoodOutput(d, 1), GoodOutput(d, 1)>>,
     <<GoodOutput(d, 1), Output("other", Address(GoodPoint(1)), Commit(1), GoodNote)>>,
     <<Output(d, Address(GoodPoint(OffCurve)), GoodPoint(0), GoodNote)>>}

TransferMsgs ==
    {TransferMsg(d, ins, <<GoodOutput(d, 1)>>, Commit(0), 1) :
        d \in Denoms, ins \in InputLists}
    \cup UNION {{TransferMsg(d, <<Spend(1, 1, 0)>>, outs, Commit(0), 1) :
                    outs \in OutputLists(d)} : d \in Denoms}
    \cup {TransferMsg("ulight", <<Spend(1, 1, 0)>>, <<GoodOutput("ulight", 1)>>,
                      ECPoint(CoordLen, 31, 1), 1),
          TransferMsg("ulight", <<Spend(1, 1, 0)>>, <<GoodOutput("ulight", 1)>>,
                      Commit(0), 0)}

UnshieldMsg(recipient, denom, amount, nullifier, commitment, signature, index, zkProof) ==
    [Recipient |-> recipient, Denom |-> denom, Amount |-> amount,
     Nullifier |-> nullifier, Commitment |-> commitment,
     Signature |-> signature, DepositIndex |-> index, ZkProof |-> zkProof]

\* key k withdraws amount (a decimal string) from the deposit at index,
\* presenting the key image of key n
Withdraw(k, n, index, denom, amount) ==
    UnshieldMsg(Bob, denom, amount, KeyImage(n), Commit(1),
                SignUnshield(k, KeyImage(n).pt, Bob, amount), index, 1)

UnshieldMsgs ==
    {Withdraw(k, n, i, d, <<k>>) : k \in Keys, n \in Keys, i \in Indices, d \in Denoms}
    \cup {UnshieldMsg(Bob, "ulight", <<1>>, KeyImage(1), Commit(1),
                      SignUnshield(1, KeyImage(1).pt, Alice, <<1>>), 0, 1),
          UnshieldMsg(Bob, "ulight", <<1>>, KeyImage(1), Commit(1),
                      SignUnshield(1, KeyImage(1).pt, Bob, <<1>>), 0, 0)}

EnabledParams(phase) ==
    [DefaultParams EXCEPT !.Enabled = TRUE, !.AllowedDenoms = Denoms,
                          !.MaxDepositsPerTx = 2, !.Phase = phase]

UpdateParamsMsgs ==
    {[Authority |-> Authority, Params |-> EnabledParams("phase1")],
     [Authority |-> Authority, Params |-> EnabledParams("phase2")],
     [Authority |-> Authority, Params |-> DefaultParams],
     [Authority |-> Authority, Params |-> EnabledParams("phase3")],
     [Authority |-> Alice, Params |-> EnabledParams("phase1")]}

(***************************************************************************)
(* The state machine: one action per handler.  The state is the store of   *)
(* the module, the bank's balances and the parameters; a handler's         *)
(* response is the value of its operator on the state it is called in.     *)
(***************************************************************************)
Store ==
    [deposits |-> deposits, next |-> nextDepositIndex, used |-> usedNullifiers,
     bal |-> balances, mod |-> moduleBalance, supply |-> supply]

AllDenoms == Denoms \cup {"other"}

Callers == 1..MaxCallers

\* no function of the client library is being called
NoCall == [fn |-> "none"]

\* DefaultGenesis: default parameters and an empty store; no goroutine has
\* called H() yet
Genesis ==
    /\ params = DefaultParams
    /\ deposits = <<>>
    /\ nextDepositIndex = [d \in AllDenoms |-> 0]
    /\ usedNullifiers = <<>>
    /\ balances = [a \in Accounts |-> [d \in AllDenoms |-> InitialBalance]]
    /\ moduleBalance = [d \in AllDenoms |-> 0]
    /\ supply = [d \in AllDenoms |-> Cardinality(Accounts) * InitialBalance]
    /\ cachedH = NilPointer
    /\ pc = [c \in Callers |-> "check"]
    /\ derived = [c \in Callers |-> NilPointer]
    /\ result = [c \in Callers |-> NilPointer]

Init ==
    /\ Genesis
    /\ call = NoCall
    /\ ret = <<>>

\* the store becomes the one the handler left
Written(st) ==
    /\ deposits' = st.deposits
    /\ nextDepositIndex' = st.next
    /\ usedNullifiers' = st.used
    /\ balances' = st.bal
    /\ moduleBalance' = st.mod
    /\ supply' = st.supply

DepositCount == Cardinality(DOMAIN deposits)

ShieldTx ==
    \E msg \in ShieldMsgs :
        /\ DepositCount < MaxDeposits
        /\ Written(Shield(params, Store, msg).st)
        /\ UNCHANGED <<params, hvars, cvars>>

PrivateTransferTx ==
    \E msg \in TransferMsgs :
        /\ DepositCount + Len(msg.Outputs) <= MaxDeposits
        /\ Written(PrivateTransfer(params, Store, msg).st)
        /\ UNCHANGED <<params, hvars, cvars>>

UnshieldTx ==
    \E msg \in UnshieldMsgs :
        /\ Written(Unshield(params, Store, msg).st)
        /\ UNCHANGED <<params, hvars, cvars>>

UpdateParamsTx ==
    \E msg \in UpdateParamsMsgs :
        /\ params' = UpdateParams(params, msg).params
        /\ UNCHANGED <<deposits, nextDepositIndex, usedNullifiers, balances,
                       moduleBalance, supply, hvars, cvars>>

Next == ShieldTx \/ PrivateTransferTx \/ UnshieldTx \/ UpdateParamsTx

Spec == Init /\ [][Next]_vars

(***************************************************************************)
(* Properties.  The response of a handler to a message, in the current     *)
(* state, is the value of the handler's operator on that state.            *)
(***************************************************************************)
ShieldResult(msg) == Shield(params, Store, msg)
TransferResult(msg) == PrivateTransfer(params, Store, msg)
UnshieldResult(msg) == Unshield(params, Store, msg)

\* the checks of PrivateTransfer that come before its input loop pass
TransferAdmitted(msg) ==
    /\ params.Enabled
    /\ DenomAllowed(params, msg.Denom)
    /\ Len(msg.Inputs) \in 1..params.MaxDepositsPerTx
    /\ Len(msg.Outputs) \in 1..params.MaxDepositsPerTx

\* the input loop accepts the inputs before input i
InputsAcceptedBefore(msg, i) ==
    ProcessInputs(params, Store, msg.Denom, SubSeq(msg.Inputs, 1, i - 1), 1).err = "ok"

\* the checks of Unshield that come before its nullifier checks pass
UnshieldAdmitted(msg) ==
    /\ params.Enabled
    /\ AccAddressFromBech32(msg.Recipient)
    /\ DenomAllowed(params, msg.Denom)
    /\ NewIntFromString(msg.Amount).ok
    /\ NewIntFromString(msg.Amount).val > 0

\* the inputs of a transfer that present a nullifier the store holds as used
UsedInputs(msg) ==
    {i \in 1..Len(msg.Inputs) : msg.Inputs[i].Nullifier \in DOMAIN usedNullifiers}

Smallest(S) == CHOOSE i \in S : \A j \in S : i <= j

\* a transfer that presents a used nullifier is refused, and with the
\* double-spend error when the handler gets as far as that input
C1_TransferRefused ==
    \A msg \in TransferMsgs :
        UsedInputs(msg) # {} =>
            LET i == Smallest(UsedInputs(msg))
                r == TransferResult(msg)
            IN /\ r.err # "ok"
               /\ (TransferAdmitted(msg) /\ InputsAcceptedBefore(msg, i)) =>
                      (r.err = "ErrNullifierAlreadyUsed" /\ r.at = i - 1)

\* an unshield that presents a used nullifier is refused likewise
C1_UnshieldRefused ==
    \A msg \in UnshieldMsgs :
        msg.Nullifier \in DOMAIN usedNullifiers =>
            /\ UnshieldResult(msg).err # "ok"
            /\ UnshieldAdmitted(msg) =>
                   UnshieldResult(msg).err = "ErrNullifierAlreadyUsed"

\* an accepted operation leaves the record of every nullifier it consumed
C1_Recorded ==
    /\ \A msg \in TransferMsgs :
           TransferResult(msg).err = "ok" =>
               \A i \in 1..Len(msg.Inputs) :
                   msg.Inputs[i].Nullifier \in DOMAIN TransferResult(msg).st.used
    /\ \A msg \in UnshieldMsgs :
           UnshieldResult(msg).err = "ok" =>
               msg.Nullifier \in DOMAIN UnshieldResult(msg).st.used

\* a used-nullifier record stays, with the content it was written with
C1_RecordKept ==
    \A n \in DOMAIN usedNullifiers :
        n \in DOMAIN usedNullifiers' /\ usedNullifiers'[n] = usedNullifiers[n]

\* C1: a nullifier is accepted at most once.  Once an accepted
\* PrivateTransfer or Unshield has consumed N, every later PrivateTransfer or
\* Unshield presenting N (any denomination, any deposit index) is refused,
\* with the double-spend error when N's check is reached, and the record of
\* N is never overwritten or deleted.
C1_NullifierAcceptedOnce ==
    /\ [](C1_TransferRefused /\ C1_UnshieldRefused /\ C1_Recorded)
    /\ [][C1_RecordKept]_vars

\* a used nullifier is presented again, inside a message that is valid but
\* for that, in another denomination than the one it was consumed in, and is
\* refused with the double-spend error
C1_Witness ==
    \E msg \in TransferMsgs :
        /\ Len(msg.Inputs) = 1
        /\ msg.Inputs[1].Nullifier \in DOMAIN usedNullifiers
        /\ usedNullifiers[msg.Inputs[1].Nullifier].Denom # msg.Denom
        /\ HasDeposit(Store, msg.Denom, msg.Inputs[1].DepositIndex)
        /\ VerifyNullifierSignature(
               GetDeposit(Store, msg.Denom, msg.Inputs[1].DepositIndex),
               msg.Inputs[1].Nullifier, msg.Inputs[1].Signature)
        /\ TransferResult(msg).err = "ErrNullifierAlreadyUsed"

\* the deposit at (denom, index) is stored and marked spent
Spent(denom, index) ==
    /\ HasDeposit(Store, denom, index)
    /\ GetDeposit(Store, denom, index).Nullifier # NoNullifier

\* no handler run changes the nullifier field of a deposit marked spent
NullifierFieldKept(st) ==
    \A key \in DOMAIN deposits :
        deposits[key].Nullifier # NoNullifier =>
            st.deposits[key].Nullifier = deposits[key].Nullifier

\* C2: a deposit is spent at most once.  Once the deposit at (denom, index)
\* carries a nullifier, no PrivateTransfer input and no Unshield referencing
\* that (denom, index) is accepted, and no handler run changes or clears the
\* deposit's nullifier field.
C2_DepositSpentOnce ==
    /\ \A msg \in TransferMsgs :
           /\ NullifierFieldKept(TransferResult(msg).st)
           /\ TransferResult(msg).err = "ok" =>
                  \A i \in 1..Len(msg.Inputs) :
                      ~Spent(msg.Denom, msg.Inputs[i].DepositIndex)
    /\ \A msg \in UnshieldMsgs :
           /\ NullifierFieldKept(UnshieldResult(msg).st)
           /\ UnshieldResult(msg).err = "ok" =>
                  ~Spent(msg.Denom, msg.DepositIndex)
    /\ \A msg \in ShieldMsgs : NullifierFieldKept(ShieldResult(msg).st)

\* the nullifier is the key image x * Hp(P) of the deposit's one-time
\* address P = x * G
IsKeyImageOf(nullifier, deposit) ==
    \E x \in 1..(CurveN - 1) :
        /\ ScalarBaseMult(x) = deposit.OneTimeAddress.Address.pt
        /\ nullifier = CompressedPoint(
               GenerateNullifier(x, deposit.OneTimeAddress.Address.pt))

\* C3: the nullifier a spend of deposit D is accepted with is D's key image:
\* every deposit marked spent carries generate(x, P_D), x the one-time
\* private key of its one-time address P_D.
C3_NullifierIsKeyImage ==
    \A key \in DOMAIN deposits :
        deposits[key].Nullifier # NoNullifier =>
            IsKeyImageOf(deposits[key].Nullifier, deposits[key])

\* C4: spending is always authorised.  Under every parameter set the module
\* can hold, an accepted Unshield references a stored deposit and carries a
\* signature that verifies against that deposit's one-time address, and so
\* does every input of an accepted PrivateTransfer.
C4_SpendAuthorised ==
    /\ \A msg \in UnshieldMsgs :
           UnshieldResult(msg).err = "ok" =>
               /\ HasDeposit(Store, msg.Denom, msg.DepositIndex)
               /\ VerifyUnshieldSignature(
                      GetDeposit(Store, msg.Denom, msg.DepositIndex),
                      msg.Nullifier, msg.Recipient, msg.Amount, msg.Signature)
    /\ \A msg \in TransferMsgs :
           TransferResult(msg).err = "ok" =>
               \A i \in 1..Len(msg.Inputs) :
                   /\ HasDeposit(Store, msg.Denom, msg.Inputs[i].DepositIndex)
                   /\ VerifyNullifierSignature(
                          GetDeposit(Store, msg.Denom, msg.Inputs[i].DepositIndex),
                          msg.Inputs[i].Nullifier, msg.Inputs[i].Signature)

\* the sum of a sequence of points
RECURSIVE SumPoints(_)
SumPoints(points) ==
    IF Len(points) = 0 THEN 0
    ELSE PointAdd(SumPoints(SubSeq(points, 1, Len(points) - 1)),
                  points[Len(points)])

\* every input references a stored deposit
InputsStored(msg) ==
    \A i \in 1..Len(msg.Inputs) :
        HasDeposit(Store, msg.Denom, msg.Inputs[i].DepositIndex)

\* the commitments of the deposits the inputs reference sum to the sum of
\* the output commitments
Balanced(msg) ==
    SumPoints([i \in 1..Len(msg.Inputs) |->
        GetDeposit(Store, msg.Denom, msg.Inputs[i].DepositIndex).Commitment.pt])
    = SumPoints([i \in 1..Len(msg.Outputs) |-> msg.Outputs[i].Commitment.pt])

\* C5: value is conserved in private transfers.  A PrivateTransfer over
\* stored deposits is accepted only if the commitments of its inputs and the
\* commitments of its outputs have the same sum: an unbalanced transfer is
\* refused.
C5_TransferBalanced ==
    \A msg \in TransferMsgs :
        (InputsStored(msg) /\ ~Balanced(msg)) => TransferResult(msg).err # "ok"

\* C6: validation precedes mutation.  A Shield, PrivateTransfer or Unshield
\* that returns an error has written nothing: the store it leaves is the
\* store it was called on.
C6_NoWriteOnError ==
    /\ \A msg \in ShieldMsgs :
           ShieldResult(msg).err # "ok" => ShieldResult(msg).st = Store
    /\ \A msg \in TransferMsgs :
           TransferResult(msg).err # "ok" => TransferResult(msg).st = Store
    /\ \A msg \in UnshieldMsgs :
           UnshieldResult(msg).err # "ok" => UnshieldResult(msg).st = Store

\* the inputs of a transfer whose nullifier an earlier input of the same
\* transfer presents
RepeatedInputs(msg) ==
    {j \in 1..Len(msg.Inputs) :
        \E i \in 1..(j - 1) : msg.Inputs[i].Nullifier = msg.Inputs[j].Nullifier}

\* C7: the inputs of a PrivateTransfer are processed in order, each seeing
\* the nullifiers the inputs before it consumed: a transfer that lists one
\* nullifier in two inputs is never accepted, and when the inputs before the
\* second occurrence are accepted it is refused at the second occurrence
\* with the double-spend error.
C7_DuplicateInTransferRefused ==
    \A msg \in TransferMsgs :
        RepeatedInputs(msg) # {} =>
            LET j == Smallest(RepeatedInputs(msg))
                r == TransferResult(msg)
            IN /\ r.err # "ok"
               /\ (TransferAdmitted(msg) /\ InputsAcceptedBefore(msg, j)) =>
                      (r.err = "ErrNullifierAlreadyUsed" /\ r.at = j - 1)

\* a transfer lists a fresh nullifier twice; its first occurrence is
\* accepted and the second is refused with the double-spend error
C7_Witness ==
    \E msg \in TransferMsgs :
        /\ Len(msg.Inputs) = 2
        /\ msg.Inputs[1].Nullifier = msg.Inputs[2].Nullifier
        /\ msg.Inputs[1].Nullifier \notin DOMAIN usedNullifiers
        /\ TransferAdmitted(msg)
        /\ InputsAcceptedBefore(msg, 2)
        /\ TransferResult(msg).err = "ErrNullifierAlreadyUsed"
        /\ TransferResult(msg).at = 1

\* the bytes are a point of the curve other than the point at infinity
ValidPoint(point) == ValidateECPointOnCurve(point) /\ point.pt # 0

\* C8: every point a message carries is checked to be on the curve and not
\* the identity before it is stored: no stored deposit holds a one-time
\* address, transaction key, commitment or ephemeral key that is not such a
\* point.
C8_StoredPointsValid ==
    \A key \in DOMAIN deposits :
        /\ ValidPoint(deposits[key].OneTimeAddress.Address)
        /\ ValidPoint(deposits[key].OneTimeAddress.TxPublicKey)
        /\ ValidPoint(deposits[key].Commitment)
        /\ ValidPoint(deposits[key].EncryptedNote.EphemeralKey)

\* the indices the deposits of a denomination are stored under
StoredIndices(st, denom) == {key[2] : key \in {k \in DOMAIN st.deposits : k[1] = denom}}

\* the deposits of every denomination are stored under 0 .. next - 1, each
\* carrying the key it is stored under
IndicesContiguous ==
    /\ \A denom \in AllDenoms :
           StoredIndices(Store, denom) = 0..(nextDepositIndex[denom] - 1)
    /\ \A key \in DOMAIN deposits :
           deposits[key].Denom = key[1] /\ deposits[key].Index = key[2]

\* an accepted Shield answers the next index of its denomination, which no
\* deposit had, and that is the index its deposit is stored under
ShieldIndexReturned ==
    \A msg \in ShieldMsgs :
        LET r == ShieldResult(msg)
            denom == msg.Amount.Denom
        IN r.err = "ok" =>
            /\ r.indices = <<nextDepositIndex[denom]>>
            /\ ~HasDeposit(Store, denom, r.indices[1])
            /\ HasDeposit(r.st, denom, r.indices[1])
            /\ GetDeposit(r.st, denom, r.indices[1]).Index = r.indices[1]
            /\ GetNextDepositIndex(r.st, denom) = r.indices[1] + 1

\* an accepted PrivateTransfer answers the indices of its outputs, the next
\* ones of its denomination in order
TransferIndicesReturned ==
    \A msg \in TransferMsgs :
        LET r == TransferResult(msg)
            n == Len(msg.Outputs)
        IN r.err = "ok" =>
            /\ r.indices = [i \in 1..n |-> nextDepositIndex[msg.Denom] + i - 1]
            /\ StoredIndices(r.st, msg.Denom)
                  = StoredIndices(Store, msg.Denom)
                    \cup {r.indices[i] : i \in 1..n}
            /\ GetNextDepositIndex(r.st, msg.Denom) = nextDepositIndex[msg.Denom] + n

\* C9: deposit indices are assigned per denomination, strictly increasing
\* from 0 with no gaps and no reuse: from the empty store the deposits of a
\* denomination occupy exactly the indices 0 .. next - 1, and Shield answers
\* with the index its deposit was stored under.
C9_IndicesSequential ==
    IndicesContiguous /\ ShieldIndexReturned /\ TransferIndicesReturned

\* one denomination holds two deposits and the other holds one, each
\* denomination counting from 0 on its own
C9_Witness ==
    /\ nextDepositIndex["ulight"] = 2
    /\ nextDepositIndex["uphoton"] = 1
    /\ DOMAIN deposits = {DepositKey("ulight", 0), DepositKey("ulight", 1),
                          DepositKey("uphoton", 0)}

\* C10: an accepted Shield of amount a of a denomination takes a from the
\* sender's balance and from the total supply of the denomination, leaves
\* the module account holding nothing of it, and creates exactly one deposit,
\* with no nullifier, at the next index of the denomination.
C10_ShieldEffect ==
    \A msg \in ShieldMsgs :
        LET r == ShieldResult(msg)
            denom == msg.Amount.Denom
            a == msg.Amount.Amount
            key == DepositKey(denom, nextDepositIndex[denom])
        IN r.err = "ok" =>
            /\ r.st.bal = [balances EXCEPT ![msg.Sender][denom] = @ - a]
            /\ r.st.supply = [supply EXCEPT ![denom] = @ - a]
            /\ r.st.mod[denom] = 0
            /\ r.st.mod = moduleBalance
            /\ key \notin DOMAIN deposits
            /\ DOMAIN r.st.deposits = DOMAIN deposits \cup {key}
            /\ \A k \in DOMAIN deposits : r.st.deposits[k] = deposits[k]
            /\ r.st.deposits[key] =
                   NewDeposit(denom, nextDepositIndex[denom], msg.Commitment,
                              msg.OneTimeAddress, msg.EncryptedNote)
            /\ r.st.deposits[key].Nullifier = NoNullifier

\* a Shield of two coins was accepted: the sender holds two coins less than
\* at the start, the supply is two coins less, the module account is empty
\* and the deposit is stored unspent
C10_Witness ==
    /\ balances[Alice]["uphoton"] = InitialBalance - 2
    /\ supply["uphoton"] = Cardinality(Accounts) * InitialBalance - 2
    /\ moduleBalance["uphoton"] = 0
    /\ DOMAIN deposits = {DepositKey("uphoton", 0)}
    /\ deposits[DepositKey("uphoton", 0)].Nullifier = NoNullifier
    /\ deposits[DepositKey("uphoton", 0)].Commitment = Commit(2)

\* C11: an accepted Unshield of amount a to recipient R adds exactly a to R's
\* public balance and leaves the module account's balance as it was, sets
\* the nullifier field of the deposit it references to the nullifier it
\* supplies, and inserts the used-nullifier record of that nullifier.
C11_UnshieldEffect ==
    \A msg \in UnshieldMsgs :
        LET r == UnshieldResult(msg)
            a == NewIntFromString(msg.Amount).val
        IN r.err = "ok" =>
            /\ r.st.bal = [balances EXCEPT ![msg.Recipient][msg.Denom] = @ + a]
            /\ r.st.mod = moduleBalance
            /\ HasDeposit(r.st, msg.Denom, msg.DepositIndex)
            /\ GetDeposit(r.st, msg.Denom, msg.DepositIndex).Nullifier = msg.Nullifier
            /\ msg.Nullifier \notin DOMAIN usedNullifiers
            /\ msg.Nullifier \in DOMAIN r.st.used
            /\ r.st.used[msg.Nullifier] = UsedNullifier(msg.Nullifier, msg.Denom)

\* C12: after an accepted PrivateTransfer every deposit an input references
\* carries a nullifier that has a used-nullifier record, every input's
\* nullifier has its record, exactly len(outputs) new deposits without
\* nullifier exist in the denomination of the message at the indices
\* returned, which are consecutive and in the order of the outputs, and the
\* public balances are unchanged.
C12_TransferEffect ==
    \A msg \in TransferMsgs :
        LET r == TransferResult(msg)
            n == Len(msg.Outputs)
        IN r.err = "ok" =>
            /\ \A i \in 1..Len(msg.Inputs) :
                   /\ HasDeposit(r.st, msg.Denom, msg.Inputs[i].DepositIndex)
                   /\ GetDeposit(r.st, msg.Denom, msg.Inputs[i].DepositIndex).Nullifier
                          # NoNullifier
                   /\ GetDeposit(r.st, msg.Denom, msg.Inputs[i].DepositIndex).Nullifier
                          \in DOMAIN r.st.used
                   /\ msg.Inputs[i].Nullifier \in DOMAIN r.st.used
            /\ r.indices = [i \in 1..n |-> nextDepositIndex[msg.Denom] + i - 1]
            /\ DOMAIN r.st.deposits
                  = DOMAIN deposits \cup {DepositKey(msg.Denom, r.indices[i]) : i \in 1..n}
            /\ \A i \in 1..n :
                   /\ ~HasDeposit(Store, msg.Denom, r.indices[i])
                   /\ GetDeposit(r.st, msg.Denom, r.indices[i])
                        = NewDeposit(msg.Denom, r.indices[i], msg.Outputs[i].Commitment,
                                     msg.Outputs[i].OneTimeAddress,
                                     msg.Outputs[i].EncryptedNote)
            /\ r.st.bal = balances
            /\ r.st.mod = moduleBalance
            /\ r.st.supply = supply

(***************************************************************************)
(* The precondition cases: a second state machine over the same handlers,  *)
(* submitting messages that break any combination of preconditions, under  *)
(* parameter sets that configure minimum amounts and the memo size.        *)
(***************************************************************************)
\* deposits created per run of the cases
MaxCaseDeposits == 2

\* phase-1 parameters with a minimum shield amount for one denomination
WithMinimum(denom, min) ==
    [EnabledParams("phase1") EXCEPT !.MinShieldAmounts = [d \in {denom} |-> min]]

CaseParams ==
    {DefaultParams, EnabledParams("phase1"), EnabledParams("phase2"),
     [EnabledParams("phase1") EXCEPT !.Enabled = FALSE],
     [EnabledParams("phase1") EXCEPT !.MaxMemoSize = 1024],
     WithMinimum("ulight", <<2>>), WithMinimum("uphoton", <<2>>),
     WithMinimum("ulight", <<>>), WithMinimum("ulight", <<Minus>>)}

\* parameter sets Params.Validate refuses
BadParams ==
    {[EnabledParams("phase1") EXCEPT !.MaxDepositsPerTx = 0],
     [EnabledParams("phase1") EXCEPT !.MaxDepositsPerTx = 129],
     [EnabledParams("phase1") EXCEPT !.MerkleTreeDepth = 0],
     [EnabledParams("phase1") EXCEPT !.MerkleTreeDepth = 65],
     [EnabledParams("phase1") EXCEPT !.Phase = "phase3"],
     [EnabledParams("phase1") EXCEPT !.ProofSystem = "stark"],
     [EnabledParams("phase1") EXCEPT !.MaxMemoSize = 4097],
     [EnabledParams("phase1") EXCEPT !.NullifierCacheDuration = -1]}

UpdateParamsCases ==
    {[Authority |-> a, Params |-> p] :
        a \in {Authority, Alice, <<>>}, p \in CaseParams \cup BadParams}

\* a point with two 32-byte coordinates and one with a short coordinate
CasePoints == {GoodPoint(1), ECPoint(31, CoordLen, 1)}

\* ciphertext lengths: none, a usual one, one above the default maximum
CaseDataLens == {0, 56, 600}

CaseNotes ==
    {Note(n, nonce, ek) :
        n \in CaseDataLens, nonce \in {NonceLen, 8}, ek \in CasePoints}

ShieldCases ==
    {ShieldMsg(s, d, a, [Address |-> ad, TxPublicKey |-> tk], c, note) :
        s \in {Alice, Malformed}, d \in AllDenoms, a \in 0..InitialBalance,
        ad \in CasePoints, tk \in CasePoints, c \in CasePoints,
        note \in CaseNotes}

ShieldCase ==
    \E msg \in ShieldCases :
        /\ DepositCount < MaxCaseDeposits
        /\ Written(Shield(params, Store, msg).st)
        /\ UNCHANGED <<params, hvars, cvars>>

UpdateParamsCase ==
    \E msg \in UpdateParamsCases :
        /\ params' = UpdateParams(params, msg).params
        /\ UNCHANGED <<deposits, nextDepositIndex, usedNullifiers, balances,
                       moduleBalance, supply, hvars, cvars>>

\* outputs of a transfer in denomination d, breaking any combination of the
\* output checks
CaseOutputs(d) ==
    {Output(od, Address(ad), c, note) :
        od \in {d, "other"}, ad \in CasePoints, c \in CasePoints,
        note \in CaseNotes}

CaseOutput(d) == Output(d, Address(GoodPoint(1)), GoodPoint(1), GoodNote)

\* lists of none, one, two and three outputs
CaseOutputLists(d) ==
    {<<>>, <<CaseOutput(d), CaseOutput(d), CaseOutput(d)>>}
    \cup {<<o>> : o \in CaseOutputs(d)}
    \cup {<<CaseOutput(d), o>> : o \in CaseOutputs(d)}

\* lists of none, one, two and three inputs; the deposits of the cases
\* belong to key 1
CaseInputLists ==
    {<<>>,
     <<Spend(1, 1, 0)>>,
     <<Spend(2, 1, 0)>>,
     <<Input(NoNullifier, 0, SignNullifier(1, KeyImage(1).pt))>>,
     <<Input(KeyImage(1), 0, NoSignature)>>,
     <<Spend(1, 1, 0), Spend(1, 2, 1)>>,
     <<Spend(1, 1, 0), Spend(1, 1, 1)>>,
     <<Spend(1, 1, 0), Spend(1, 2, 1), Spend(1, 2, 0)>>}

TransferCases ==
    {TransferMsg("ulight", <<Spend(1, 1, 0)>>, outs, GoodPoint(1), 1) :
        outs \in CaseOutputLists("ulight")}
    \cup UNION {{TransferMsg(d, ins, outs, bc, zk) :
                    ins \in CaseInputLists,
                    outs \in {<<>>, <<CaseOutput(d)>>,
                              <<CaseOutput(d), CaseOutput(d), CaseOutput(d)>>},
                    bc \in CasePoints, zk \in {0, 1}} : d \in {"ulight", "other"}}

\* amounts on the wire: "1", "0", "-1" and the empty string
CaseAmounts == {<<1>>, <<0>>, <<Minus, 1>>, <<>>}

UnshieldCases ==
    UNION {{UnshieldMsg(rcpt, d, a, n, c, sig, i, zk) :
                d \in {"ulight", "other"},
                n \in {KeyImage(1), NoNullifier}, c \in CasePoints,
                sig \in {SignUnshield(1, KeyImage(1).pt, rcpt, a), NoSignature},
                i \in Indices, zk \in {0, 1}} :
            rcpt \in {Bob, Malformed}, a \in CaseAmounts}

TransferCase ==
    \E msg \in TransferCases :
        /\ DepositCount + Len(msg.Outputs) <= MaxCaseDeposits
        /\ Written(PrivateTransfer(params, Store, msg).st)
        /\ UNCHANGED <<params, hvars, cvars>>

UnshieldCase ==
    \E msg \in UnshieldCases :
        /\ Written(Unshield(params, Store, msg).st)
        /\ UNCHANGED <<params, hvars, cvars>>

CaseNext == ShieldCase \/ UpdateParamsCase

CaseSpec == Init /\ [][CaseNext]_vars

\* The requests of the transfer and unshield cases arrive in a store that the
\* shields of the clients fill, under parameters the authority sets: the
\* defaults, both phases, and the module switched off but configured.
RequestParams ==
    {DefaultParams, EnabledParams("phase1"), EnabledParams("phase2"),
     [EnabledParams("phase1") EXCEPT !.Enabled = FALSE]}

ShieldRequest ==
    \E msg \in ShieldMsgs :
        /\ DepositCount < MaxCaseDeposits
        /\ Written(Shield(params, Store, msg).st)
        /\ UNCHANGED <<params, hvars, cvars>>

Reconfigure ==
    \E p \in RequestParams :
        /\ params' = UpdateParams(params, [Authority |-> Authority, Params |-> p]).params
        /\ UNCHANGED <<deposits, nextDepositIndex, usedNullifiers, balances,
                       moduleBalance, supply, hvars, cvars>>

RequestNext == ShieldRequest \/ TransferCase \/ UnshieldCase \/ Reconfigure

RequestSpec == Init /\ [][RequestNext]_vars

\* both coordinates of the point are 32 bytes long
WellFormed(point) == point.xlen = 32 /\ point.ylen = 32

\* a minimum is configured for the denomination
MinimumConfigured(denom) ==
    denom \in DOMAIN params.MinShieldAmounts /\ params.MinShieldAmounts[denom] # <<>>

\* the preconditions of Shield in the order they are to be checked, each
\* with the error of its failure
ShieldPreconditions(msg) ==
    LET denom == msg.Amount.Denom
        min == NewIntFromString(params.MinShieldAmounts[denom])
        note == msg.EncryptedNote
    IN << <<params.Enabled, "ErrModuleDisabled">>,
          <<msg.Sender \in Accounts, "ErrInvalidAddress">>,
          <<denom \in params.AllowedDenoms, "ErrDenomNotAllowed">>,
          <<msg.Amount.Amount > 0, "ErrInvalidAmount">>,
          IF ~MinimumConfigured(denom) THEN <<TRUE, "ok">>
          ELSE IF ~min.ok THEN <<FALSE, "ErrInvalidAmount">>
          ELSE <<msg.Amount.Amount >= min.val, "ErrAmountBelowMinimum">>,
          <<WellFormed(msg.OneTimeAddress.Address)
              /\ WellFormed(msg.OneTimeAddress.TxPublicKey),
            "ErrInvalidOneTimeAddress">>,
          <<WellFormed(msg.Commitment), "ErrInvalidCommitment">>,
          <<note.EncryptedData > 0, "ErrInvalidNote">>,
          <<note.EncryptedData <= params.MaxMemoSize + 48, "ErrMemoTooLarge">>,
          <<note.Nonce = 12, "ErrInvalidNote">>,
          <<WellFormed(note.EphemeralKey), "ErrInvalidNote">> >>

\* the positions of the preconditions that fail
Failed(preconditions) ==
    {i \in 1..Len(preconditions) : ~preconditions[i][1]}

AmountDecides(msg) ==
    /\ Failed(ShieldPreconditions(msg)) \subseteq {4, 5}
    /\ CanSendFromAccount(Store, msg.Sender, msg.Amount.Denom, msg.Amount.Amount)

\* the configured minimum of the denomination parses as a number
MinimumParses(denom) == NewIntFromString(params.MinShieldAmounts[denom]).ok

MinimumOf(denom) == NewIntFromString(params.MinShieldAmounts[denom]).val

\* C18: Shield enforces the minimum of the denomination inclusively.  Of
\* the messages that are valid but perhaps for their amount: a non-positive
\* amount is always refused; with no minimum configured for the denomination
\* (none at all, or only for another denomination) every positive amount is
\* accepted; with a minimum configured an amount equal to it or above is
\* accepted and every smaller amount is refused.
C18_MinimumInclusive ==
    \A msg \in ShieldCases :
        LET denom == msg.Amount.Denom
            a == msg.Amount.Amount
            r == ShieldResult(msg)
        IN AmountDecides(msg) =>
            IF a <= 0 THEN r.err = "ErrInvalidAmount"
            ELSE IF ~MinimumConfigured(denom) THEN r.err = "ok"
            ELSE MinimumParses(denom) =>
                     IF a >= MinimumOf(denom) THEN r.err = "ok"
                     ELSE r.err = "ErrAmountBelowMinimum"

\* a minimum of 2 is configured for one denomination only: there an amount
\* of 2 is accepted and an amount of 1 is refused, and in the other
\* denomination an amount of 1 is accepted
C18_Witness ==
    /\ DOMAIN params.MinShieldAmounts = {"ulight"}
    /\ MinimumParses("ulight") /\ MinimumOf("ulight") = 2
    /\ \E msg \in ShieldCases :
           /\ msg.Amount = [Denom |-> "ulight", Amount |-> 2]
           /\ ShieldResult(msg).err = "ok"
    /\ \E msg \in ShieldCases :
           /\ msg.Amount = [Denom |-> "ulight", Amount |-> 1]
           /\ AmountDecides(msg)
           /\ ShieldResult(msg).err = "ErrAmountBelowMinimum"
    /\ \E msg \in ShieldCases :
           /\ msg.Amount = [Denom |-> "uphoton", Amount |-> 1]
           /\ ShieldResult(msg).err = "ok"

\* the response of UpdateParams in the current state
UpdateParamsResult(msg) == UpdateParams(params, msg)

\* the update comes from the module's authority and its parameters pass
\* Params.Validate
Authorised(msg) == msg.Authority = Authority /\ ValidateParams(msg.Params)

\* UpdateParams answers ok and hands the new parameters to the store exactly
\* for an authorised update, and answers an error and keeps the stored
\* parameters otherwise
C19_Response ==
    \A msg \in UpdateParamsCases :
        IF Authorised(msg)
        THEN /\ UpdateParamsResult(msg).err = "ok"
             /\ UpdateParamsResult(msg).params = msg.Params
        ELSE /\ UpdateParamsResult(msg).err # "ok"
             /\ UpdateParamsResult(msg).params = params

\* a step that changes the stored parameters stores the parameters of an
\* authorised update and changes nothing else
C19_Step ==
    params' # params =>
        /\ \E msg \in UpdateParamsCases : Authorised(msg) /\ params' = msg.Params
        /\ UNCHANGED <<deposits, nextDepositIndex, usedNullifiers, balances,
                       moduleBalance, supply>>

\* C19: UpdateParams replaces the stored parameters only when msg.Authority
\* is the module's authority and the new parameters pass Params.Validate; in
\* every other case it returns an error and the stored parameters stay; in
\* all cases deposits, used nullifiers and index counters stay.
C19_UpdateParamsGuarded == [](C19_Response) /\ [][C19_Step]_vars

\* with deposits stored and parameters in force that an earlier update set,
\* an update from another signer and an update with refused parameters both
\* fail, and an authorised update would replace the parameters
C19_Witness ==
    /\ DepositCount > 0
    /\ params = WithMinimum("ulight", <<2>>)
    /\ \E msg \in UpdateParamsCases :
           /\ msg.Authority # Authority /\ ValidateParams(msg.Params)
           /\ UpdateParamsResult(msg).err = "ErrInvalidSigner"
    /\ \E msg \in UpdateParamsCases :
           /\ msg.Authority = Authority /\ msg.Params \in BadParams
           /\ UpdateParamsResult(msg).err = "ErrInvalidParams"
    /\ \E msg \in UpdateParamsCases :
           /\ UpdateParamsResult(msg).err = "ok"
           /\ UpdateParamsResult(msg).params # params

\* the checks of Shield on an encrypted note: ciphertext present and within
\* the configured size, nonce of twelve bytes
NoteWithinLimits(note) ==
    /\ note.EncryptedData > 0
    /\ note.EncryptedData <= params.MaxMemoSize + NoteOverhead
    /\ note.Nonce = NonceLen

\* C14: every output of an accepted PrivateTransfer passes the structural
\* checks of Shield on its note: the ciphertext is non-empty and no longer than
\* the configured maximum size, the nonce is twelve bytes long.
C14_TransferOutputsChecked ==
    \A msg \in TransferCases :
        TransferResult(msg).err = "ok" =>
            \A i \in 1..Len(msg.Outputs) :
                NoteWithinLimits(msg.Outputs[i].EncryptedNote)

\* the handler refuses with the module-disabled error and writes nothing
RefusedAsDisabled(r) == r.err = "ErrModuleDisabled" /\ r.st = Store

\* C16: while params.Enabled is false, every Shield, PrivateTransfer and
\* Unshield fails with the module-disabled error, whatever else is wrong with
\* the message, and leaves the store as it was.
C16_DisabledRefusesAll ==
    ~params.Enabled =>
        /\ \A msg \in ShieldCases : RefusedAsDisabled(ShieldResult(msg))
        /\ \A msg \in TransferCases : RefusedAsDisabled(TransferResult(msg))
        /\ \A msg \in UnshieldCases : RefusedAsDisabled(UnshieldResult(msg))

\* the module is switched off while deposits exist, and a Shield, a transfer
\* and an Unshield that the same parameters with Enabled set would accept are
\* refused
C16_Witness ==
    LET on == [params EXCEPT !.Enabled = TRUE]
    IN /\ ~params.Enabled
       /\ DepositCount > 0
       /\ \E msg \in ShieldCases :
            /\ Shield(on, Store, msg).err = "ok"
            /\ RefusedAsDisabled(ShieldResult(msg))
       /\ \E msg \in TransferCases :
            /\ PrivateTransfer(on, Store, msg).err = "ok"
            /\ RefusedAsDisabled(TransferResult(msg))
       /\ \E msg \in UnshieldCases :
            /\ Unshield(on, Store, msg).err = "ok"
            /\ RefusedAsDisabled(UnshieldResult(msg))

\* the numbers of inputs and outputs are both within 1..MaxDepositsPerTx
Counted(msg) ==
    /\ Len(msg.Inputs) \in 1..params.MaxDepositsPerTx
    /\ Len(msg.Outputs) \in 1..params.MaxDepositsPerTx

\* the error of the first count check that a transfer fails
CountError(msg) ==
    IF Len(msg.Inputs) = 0 THEN "ErrEmptyInputs"
    ELSE IF Len(msg.Inputs) > params.MaxDepositsPerTx THEN "ErrTooManyInputs"
    ELSE IF Len(msg.Outputs) = 0 THEN "ErrEmptyOutputs"
    ELSE "ErrTooManyOutputs"

\* C17: a PrivateTransfer is accepted only with 1..MaxDepositsPerTx inputs and
\* 1..MaxDepositsPerTx outputs; a transfer with a count outside that range is
\* refused by the count checks (once the module is enabled and the
\* denomination allowed) before any input is processed: no nullifier is
\* consumed and no deposit created.
C17_CountsChecked ==
    \A msg \in TransferCases :
        LET r == TransferResult(msg)
        IN /\ r.err = "ok" => Counted(msg)
           /\ ~Counted(msg) =>
                /\ r.err # "ok"
                /\ r.st = Store
                /\ params.Enabled /\ DenomAllowed(params, msg.Denom)
                      => r.err = CountError(msg)

\* a transfer of three inputs whose first input the input loop would accept
\* is refused for its count, a transfer without outputs whose inputs the
\* input loop would accept is refused for its count, and a transfer of two
\* inputs is accepted
C17_Witness ==
    /\ \E msg \in TransferCases :
          /\ Len(msg.Inputs) > params.MaxDepositsPerTx
          /\ ProcessInput(params, Store, msg.Denom, msg.Inputs[1]).err = "ok"
          /\ TransferResult(msg).err = "ErrTooManyInputs"
    /\ \E msg \in TransferCases :
          /\ Len(msg.Outputs) = 0
          /\ Len(msg.Inputs) > 0
          /\ ProcessInputs(params, Store, msg.Denom, msg.Inputs, 1).err = "ok"
          /\ TransferResult(msg).err = "ErrEmptyOutputs"
    /\ \E msg \in TransferCases :
          /\ Len(msg.Inputs) = 2
          /\ TransferResult(msg).err = "ok"
NoteDefective(note) ==
    \/ note.EncryptedData = 0
    \/ note.Nonce # 12
    \/ ~WellFormed(note.EphemeralKey)

\* defects of a message that depend on neither the parameters nor the store
ShieldDefective(msg) ==
    \/ msg.Sender \notin Accounts
    \/ msg.Amount.Amount <= 0
    \/ ~WellFormed(msg.OneTimeAddress.Address)
    \/ ~WellFormed(msg.OneTimeAddress.TxPublicKey)
    \/ ~WellFormed(msg.Commitment)
    \/ NoteDefective(msg.EncryptedNote)

OutputDefective(denom, output) ==
    \/ output.Denom # denom
    \/ ~WellFormed(output.OneTimeAddress.Address)
    \/ ~WellFormed(output.OneTimeAddress.TxPublicKey)
    \/ ~WellFormed(output.Commitment)
    \/ NoteDefective(output.EncryptedNote)

TransferDefective(msg) ==
    \/ Len(msg.Inputs) = 0
    \/ Len(msg.Outputs) = 0
    \/ \E i \in 1..Len(msg.Inputs) : msg.Inputs[i].Nullifier.len = 0
    \/ ~WellFormed(msg.BalanceCommitment)
    \/ \E i \in 1..Len(msg.Outputs) : OutputDefective(msg.Denom, msg.Outputs[i])

UnshieldDefective(msg) ==
    \/ msg.Recipient \notin Accounts
    \/ ~IsDigits(msg.Amount)
    \/ DigitsValue(msg.Amount) = 0
    \/ msg.Nullifier.len = 0
    \/ ~WellFormed(msg.Commitment)

chain == <<params, deposits, nextDepositIndex, usedNullifiers, balances,
           moduleBalance, supply>>

\* the caller has executed the assignment cachedH = DeriveH()
Assigned(c) == derived[c] # NilPointer /\ pc[c] \in {"return", "done"}

\* what a read of cachedH by caller c may return.  The accesses are plain
\* loads and stores: a caller sees its own store, and a store of another
\* caller, which nothing orders before the read, may or may not be seen.
Observable(c) ==
    IF Assigned(c) THEN {cachedH}
    ELSE IF cachedH = NilPointer THEN {NilPointer}
    ELSE {NilPointer, cachedH}

\* if cachedH == nil
HCheck(c) ==
    /\ pc[c] = "check"
    /\ \E seen \in Observable(c) :
          pc' = [pc EXCEPT ![c] = IF seen = NilPointer THEN "derive" ELSE "return"]
    /\ UNCHANGED <<cachedH, derived, result, chain, cvars>>

\* DeriveH(), the right-hand side of the assignment
HDerive(c) ==
    /\ pc[c] = "derive"
    /\ derived' = [derived EXCEPT ![c] = HPoint]
    /\ pc' = [pc EXCEPT ![c] = "assign"]
    /\ UNCHANGED <<cachedH, result, chain, cvars>>

\* cachedH = ...
HAssign(c) ==
    /\ pc[c] = "assign"
    /\ cachedH' = derived[c]
    /\ pc' = [pc EXCEPT ![c] = "return"]
    /\ UNCHANGED <<derived, result, chain, cvars>>

\* return cachedH
HReturn(c) ==
    /\ pc[c] = "return"
    /\ \E seen \in Observable(c) : result' = [result EXCEPT ![c] = seen]
    /\ pc' = [pc EXCEPT ![c] = "done"]
    /\ UNCHANGED <<cachedH, derived, chain, cvars>>

HNext == \E c \in Callers : HCheck(c) \/ HDerive(c) \/ HAssign(c) \/ HReturn(c)

HSpec == Init /\ [][HNext]_vars

\* runs of DeriveH and assignments of the cache so far
Derivations == Cardinality({c \in Callers : derived[c] # NilPointer})
Assignments == Cardinality({c \in Callers : Assigned(c)})

\* a caller has stored to cachedH and another caller has read or stored it:
\* nothing in H orders the two accesses
Unsynchronised ==
    \E a \in Callers, b \in Callers :
        a # b /\ Assigned(a) /\ pc[b] # "check"

\* C20: H is initialised behind a one-time guard: under concurrent first
\* access the derivation runs at most once and the cache is assigned at most
\* once, no read of the cache is concurrent with an unsynchronised write of
\* it, and every caller that has returned obtained the same point, H.
C20_HInitialisedOnce ==
    /\ Derivations <= 1
    /\ Assignments <= 1
    /\ ~Unsynchronised
    /\ \A c \in Callers : pc[c] = "done" => result[c] = HPoint

(***************************************************************************)
(* The client library (crypto/stealth.go, crypto/signature.go,             *)
(* crypto/commitment.go, crypto/curve.go, client/utils): pure functions.   *)
(* A call is drawn at the start and the functions are applied to it.       *)
(***************************************************************************)
\* GenerateRandomScalar: a scalar in [1, n-1]
Scalars == 1..(CurveN - 1)

\* SHA-256 of a byte string, and its reduction to a scalar
Hash256(x) == (x * x * x + 2 * x + 5) % 11
HashToScalar(x) == Hash256(x) % CurveN

\* GenerateStealthAddress with the random scalar r: the one-time address P,
\* the transaction key R and the shared secret
GenerateStealthAddress(recipientViewPubKey, recipientSpendPubKey, r) ==
    LET sharedSecret == Hash256(ScalarMult(r, recipientViewPubKey))
    IN [PublicKey |-> PointAdd(ScalarBaseMult(HashToScalar(sharedSecret)),
                               recipientSpendPubKey),
        TxPublicKey |-> ScalarBaseMult(r),
        SharedSecret |-> sharedSecret]

\* a check that returns the hash scalar alone as the private key
CheckIfMine_NoSpendKey(oneTimeAddr, txPubKey, myViewPrivKey, mySpendPubKey, mySpendPrivKey) ==
    LET hs == HashToScalar(Hash256(ScalarMult(myViewPrivKey, txPubKey)))
    IN IF PointAdd(ScalarBaseMult(hs), mySpendPubKey) = oneTimeAddr
       THEN [mine |-> TRUE, key |-> hs]
       ELSE [mine |-> FALSE, key |-> NilPointer]

\* CheckIfMine: (isMine, one-time private key or nil)
CheckIfMine(oneTimeAddr, txPubKey, myViewPrivKey, mySpendPubKey, mySpendPrivKey) ==
    LET hs == HashToScalar(Hash256(ScalarMult(myViewPrivKey, txPubKey)))
    IN IF PointAdd(ScalarBaseMult(hs), mySpendPubKey) = oneTimeAddr
       THEN [mine |-> TRUE, key |-> (hs + mySpendPrivKey) % CurveN]
       ELSE [mine |-> FALSE, key |-> NilPointer]

\* a sender with random scalar r pays the recipient (v, s); the wallet with
\* the keys (myV, myS) scans the address
StealthCalls ==
    {[fn |-> "stealth", v |-> v, s |-> s, r |-> r, myV |-> mv, myS |-> ms] :
        v \in Scalars, s \in Scalars, r \in Scalars,
        mv \in Scalars, ms \in Scalars}

Generate ==
    /\ call.fn = "stealth" /\ Len(ret) = 0
    /\ ret' = <<GenerateStealthAddress(ScalarBaseMult(call.v),
                                       ScalarBaseMult(call.s), call.r)>>
    /\ UNCHANGED <<call, chain, hvars>>

Scan ==
    /\ call.fn = "stealth" /\ Len(ret) = 1
    /\ ret' = Append(ret, CheckIfMine(ret[1].PublicKey, ret[1].TxPublicKey,
                                      call.myV, ScalarBaseMult(call.myS),
                                      call.myS))
    /\ UNCHANGED <<call, chain, hvars>>

\* client/utils: the nullifier and the signature the owner of a deposit
\* sends to spend it (NoNullifier and NoSignature stand for an error)
PreparePrivateTransferInput(oneTimePrivKey, oneTimeAddr) ==
    LET nullifier == CompressedPoint(GenerateNullifier(oneTimePrivKey, oneTimeAddr))
    IN IF ~NullifierFromBytes(nullifier)
       THEN [Nullifier |-> NoNullifier, Signature |-> NoSignature]
       ELSE [Nullifier |-> nullifier,
             Signature |-> SignNullifier(oneTimePrivKey, nullifier.pt)]

PrepareUnshield(oneTimePrivKey, oneTimeAddr, recipientAddr, amount) ==
    LET nullifier == CompressedPoint(GenerateNullifier(oneTimePrivKey, oneTimeAddr))
    IN IF ~NullifierFromBytes(nullifier) \/ Len(recipientAddr) = 0 \/ Len(amount) = 0
       THEN [Nullifier |-> NoNullifier, Signature |-> NoSignature]
       ELSE [Nullifier |-> nullifier,
             Signature |-> SignUnshield(oneTimePrivKey, nullifier.pt,
                                        recipientAddr, amount)]

\* the owner of the one-time key x signs for its deposit; the keeper
\* verifies the signature against the deposit of the key d, for the
\* nullifier with the point q
SignCalls ==
    {[fn |-> "sign", kind |-> k, x |-> x, d |-> d, q |-> q] :
        k \in {"transfer", "unshield"}, x \in Scalars, d \in Scalars,
        q \in Scalars}

\* the deposit of the one-time key d, as stored
DepositOf(d) ==
    NewDeposit("ulight", 0, Commit(1), Address(GoodPoint(ScalarBaseMult(d))),
               GoodNote)

Sign ==
    /\ call.fn = "sign" /\ Len(ret) = 0
    /\ ret' = <<IF call.kind = "transfer"
                THEN PreparePrivateTransferInput(call.x, ScalarBaseMult(call.x))
                ELSE PrepareUnshield(call.x, ScalarBaseMult(call.x), Bob, <<1>>)>>
    /\ UNCHANGED <<call, chain, hvars>>

Verify ==
    /\ call.fn = "sign" /\ Len(ret) = 1
    /\ ret' = Append(ret,
                IF call.kind = "transfer"
                THEN VerifyNullifierSignature(DepositOf(call.d),
                         CompressedPoint(call.q), ret[1].Signature)
                ELSE VerifyUnshieldSignature(DepositOf(call.d),
                         CompressedPoint(call.q), Bob, <<1>>, ret[1].Signature))
    /\ UNCHANGED <<call, chain, hvars>>

\* the width of an amount (uint64 in the code) and the sum of two of them
UintBits == 2
MaxUint == 2 ^ UintBits - 1
UintAdd(a, b) == (a + b) % (2 ^ UintBits)

\* an addition that forgets its second operand
CommitmentAdd_Doubled(c, other) ==
    IF c = NilPointer \/ other = NilPointer THEN NilPointer
    ELSE PointAdd(c, c)

\* Commitment.Add
CommitmentAdd(c, other) ==
    IF c = NilPointer \/ other = NilPointer THEN NilPointer
    ELSE PointAdd(c, other)

\* two amounts and two blindings; a blinding is a big.Int of any size
CommitCalls ==
    {[fn |-> "commit", a |-> a, b |-> b, r1 |-> r1, r2 |-> r2] :
        a \in 0..MaxUint, b \in 0..MaxUint,
        r1 \in 0..(CurveN - 1), r2 \in 0..(CurveN - 1)}

CommitBoth ==
    /\ call.fn = "commit" /\ Len(ret) = 0
    /\ ret' = <<CreateCommitment(call.a, call.r1),
                CreateCommitment(call.b, call.r2)>>
    /\ UNCHANGED <<call, chain, hvars>>

\* the sum of the two commitments and the commitment to the sums
AddCommitments ==
    /\ call.fn = "commit" /\ Len(ret) = 2
    /\ ret' = Append(ret,
                [sum |-> CommitmentAdd(ret[1], ret[2]),
                 direct |-> CreateCommitment(UintAdd(call.a, call.b),
                                             call.r1 + call.r2)])
    /\ UNCHANGED <<call, chain, hvars>>

\* Commitment.Equal
CommitmentEqual(c, other) ==
    IF c = NilPointer /\ other = NilPointer THEN TRUE
    ELSE IF c = NilPointer \/ other = NilPointer THEN FALSE
    ELSE c = other

\* the loop of VerifyCommitmentBalance from output i on; NilPointer when an
\* addition returns nil
RECURSIVE SumOutputs(_, _, _)
SumOutputs(sum, outputs, i) ==
    IF i > Len(outputs) THEN sum
    ELSE LET next == CommitmentAdd(sum, outputs[i])
         IN IF next = NilPointer THEN NilPointer
            ELSE SumOutputs(next, outputs, i + 1)

\* a balance check that looks at the first output only
VerifyCommitmentBalance_FirstOnly(input, outputs) ==
    IF input = NilPointer \/ Len(outputs) = 0 THEN FALSE
    ELSE CommitmentEqual(input, outputs[1])

VerifyCommitmentBalance(input, outputs) ==
    IF input = NilPointer \/ Len(outputs) = 0 THEN FALSE
    ELSE IF Len(outputs) > 1 /\ SumOutputs(outputs[1], outputs, 2) = NilPointer
         THEN FALSE
    ELSE CommitmentEqual(input, SumOutputs(outputs[1], outputs, 2))

\* a *Commitment: nil or a point of the group, the identity included
Commitments == (0..(CurveN - 1)) \cup {NilPointer}
MaxOutputs == 3

BalanceCalls ==
    {[fn |-> "balance", input |-> c, outputs |-> o] :
        c \in Commitments,
        o \in UNION {[1..n -> Commitments] : n \in 0..MaxOutputs}}

Balance ==
    /\ call.fn = "balance" /\ Len(ret) = 0
    /\ ret' = <<VerifyCommitmentBalance(call.input, call.outputs)>>
    /\ UNCHANGED <<call, chain, hvars>>

\* the same check after output i was replaced by a different point
Rebalance ==
    /\ call.fn = "balance" /\ Len(ret) = 1
    /\ \E i \in DOMAIN call.outputs :
         \E p \in (0..(CurveN - 1)) \ {call.outputs[i]} :
            ret' = Append(ret,
                     [i |-> i, p |-> p,
                      ok |-> VerifyCommitmentBalance(call.input,
                                 [call.outputs EXCEPT ![i] = p])])
    /\ UNCHANGED <<call, chain, hvars>>

\* binary.LittleEndian.PutUint64 and Uint64: n bytes, lowest first
RECURSIVE PutUintLE(_, _)
PutUintLE(v, n) ==
    IF n = 0 THEN <<>> ELSE <<v % 256>> \o PutUintLE(v \div 256, n - 1)

RECURSIVE UintLE(_)
UintLE(b) == IF Len(b) = 0 THEN 0 ELSE b[1] + 256 * UintLE(Tail(b))

\* big.Int.Bytes and SetBytes: big-endian, no leading zero byte
RECURSIVE BigBytes(_)
BigBytes(v) == IF v = 0 THEN <<>> ELSE Append(BigBytes(v \div 256), v % 256)

RECURSIVE SetBytes(_)
SetBytes(b) ==
    IF Len(b) = 0 THEN 0
    ELSE 256 * SetBytes(SubSeq(b, 1, Len(b) - 1)) + b[Len(b)]

AmountLen == 8
PlaintextLen == 40

\* amount (8 bytes) || blinding (32 bytes, right-aligned)
NotePlaintext(amount, blinding) ==
    LET blindingBytes == BigBytes(blinding)
        pad == PlaintextLen - AmountLen - Len(blindingBytes)
    IN PutUintLE(amount, AmountLen) \o [i \in 1..pad |-> 0] \o blindingBytes

\* the AES key derived from a shared secret
EncryptionKey(sharedSecret) == Hash256(2 * sharedSecret)

\* AES-GCM: a sealed text opens under the key and the nonce it was sealed
\* with and under no others; Open panics on a nonce that has not 12 bytes
Seal(key, nonce, plaintext) ==
    [key |-> key, nonce |-> nonce, plaintext |-> plaintext, tag |-> TRUE]

Open(key, nonce, ciphertext) ==
    IF nonce.len # NonceLen THEN [err |-> "panic", plaintext |-> <<>>]
    ELSE IF ciphertext.tag /\ ciphertext.key = key /\ ciphertext.nonce = nonce
         THEN [err |-> "none", plaintext |-> ciphertext.plaintext]
    ELSE [err |-> "open", plaintext |-> <<>>]

EncryptNote(amount, blinding, sharedSecret, nonce) ==
    [Ciphertext |-> Seal(EncryptionKey(sharedSecret), nonce,
                         NotePlaintext(amount, blinding)),
     Nonce |-> nonce,
     EphemeralKey |-> ScalarBaseMult(HashToScalar(2 * sharedSecret + 1))]

\* (amount, blinding, err); no amount and no blinding on an error
NoNote(err) == [amount |-> 0, blinding |-> NilPointer, err |-> err]

DecryptNote(ciphertext, nonce, sharedSecret) ==
    LET opened == Open(EncryptionKey(sharedSecret), nonce, ciphertext)
    IN IF opened.err # "none" THEN NoNote(opened.err)
       ELSE IF Len(opened.plaintext) # PlaintextLen THEN NoNote("length")
       ELSE [amount |-> UintLE(SubSeq(opened.plaintext, 1, AmountLen)),
             blinding |-> SetBytes(SubSeq(opened.plaintext, AmountLen + 1,
                                          PlaintextLen)),
             err |-> "none"]

\* amounts and blindings that fill one, two, three and four bytes
NoteValues == {0, 1, 255, 256, 65536, 16777216 + 258}
SharedSecrets == {1, 2}
\* two nonces of 12 bytes and one of 11
NoteNonces == {[len |-> NonceLen, id |-> 1], [len |-> NonceLen, id |-> 2],
               [len |-> NonceLen - 1, id |-> 1]}

NoteCalls ==
    {[fn |-> "note", amount |-> a, blinding |-> b, secret |-> k] :
        a \in NoteValues, b \in NoteValues, k \in SharedSecrets}

Encrypt ==
    /\ call.fn = "note" /\ Len(ret) = 0
    /\ \E nonce \in {n \in NoteNonces : n.len = NonceLen} :
         ret' = <<EncryptNote(call.amount, call.blinding, call.secret, nonce)>>
    /\ UNCHANGED <<call, chain, hvars>>

\* the texts presented for decryption: the one encrypted, the same with a
\* byte changed, and a text of three bytes sealed under the same key
Presented(note, sharedSecret) ==
    {note.Ciphertext,
     [note.Ciphertext EXCEPT !.tag = FALSE],
     Seal(EncryptionKey(sharedSecret), note.Nonce, <<1, 2, 3>>)}

Decrypt ==
    /\ call.fn = "note" /\ Len(ret) = 1
    /\ \E ciphertext \in Presented(ret[1], call.secret) :
         \E nonce \in NoteNonces :
            \E sharedSecret \in SharedSecrets :
               ret' = Append(ret,
                        [ciphertext |-> ciphertext, nonce |-> nonce,
                         secret |-> sharedSecret,
                         out |-> DecryptNote(ciphertext, nonce, sharedSecret)])
    /\ UNCHANGED <<call, chain, hvars>>

\* the curve y^2 = x^3 + 7 with coordinates: over the field of FieldP
\* elements it has a prime number of points, none of them with y = 0 or
\* x = 0, and coordinates of one byte and of two
FieldP == 349
CurveB == 7
CurveRhs(x) == (x * x * x + CurveB) % FieldP
CurvePoints ==
    {P \in (0..(FieldP - 1)) \X (0..(FieldP - 1)) :
        (P[2] * P[2]) % FieldP = CurveRhs(P[1])}

\* what big.Int.ModSqrt may return: a square root, nil when there is none
ModSqrt(a) ==
    LET roots == {y \in 0..(FieldP - 1) : (y * y) % FieldP = a}
    IN IF roots = {} THEN {NilPointer} ELSE roots

\* ECPoint.Compressed: 0x02 or 0x03, then X right-aligned in 32 bytes
Compressed(P) ==
    LET xBytes == BigBytes(P[1])
    IN <<IF P[2] % 2 = 0 THEN 2 ELSE 3>>
          \o [i \in 1..(CoordLen - Len(xBytes)) |-> 0] \o xBytes

\* a decompression that keeps the root whatever the prefix asks for
DecompressPoint_AnyParity(compressed, root) ==
    IF Len(compressed) # CompressedLen THEN NilPointer
    ELSE IF root = NilPointer THEN NilPointer
    ELSE IF compressed[1] \notin {2, 3} THEN NilPointer
    ELSE <<SetBytes(SubSeq(compressed, 2, CompressedLen)), root>>

\* DecompressPoint, with root the value ModSqrt returned
DecompressPoint(compressed, root) ==
    IF Len(compressed) # CompressedLen THEN NilPointer
    ELSE IF root = NilPointer THEN NilPointer
    ELSE LET x == SetBytes(SubSeq(compressed, 2, CompressedLen))
         IN IF compressed[1] = 2
            THEN <<x, IF root % 2 = 1 THEN FieldP - root ELSE root>>
            ELSE IF compressed[1] = 3
            THEN <<x, IF root % 2 = 0 THEN FieldP - root ELSE root>>
            ELSE NilPointer

PointCalls == {[fn |-> "point", P |-> P] : P \in CurvePoints}

Compress ==
    /\ call.fn = "point" /\ Len(ret) = 0
    /\ ret' = <<Compressed(call.P)>>
    /\ UNCHANGED <<call, chain, hvars>>

Decompress ==
    /\ call.fn = "point" /\ Len(ret) = 1
    /\ \E root \in ModSqrt(CurveRhs(SetBytes(Tail(ret[1])))) :
         ret' = Append(ret, [root |-> root,
                             P |-> DecompressPoint(ret[1], root)])
    /\ UNCHANGED <<call, chain, hvars>>

\* parameter sets at and around every limit of Params.Validate, with the
\* fields it does not read at two values each
ParamsCalls ==
    {[fn |-> "params",
      p |-> [Enabled |-> e, AllowedDenoms |-> {},
             MinShieldAmounts |-> m,
             MaxDepositsPerTx |-> dx, MerkleTreeDepth |-> depth,
             ProofSystem |-> ps, MaxMemoSize |-> memo,
             NullifierCacheDuration |-> dur, Phase |-> ph]] :
        e \in BOOLEAN, m \in {<<>>, [d \in {"ulight"} |-> <<Minus>>]},
        dx \in {0, 1, 16, 128, 129}, depth \in {0, 1, 32, 64, 65},
        ps \in {"groth16", "plonk", "stark", ""},
        memo \in {0, 512, 4096, 4097}, dur \in {-1, 0, 100000},
        ph \in {"phase1", "phase2", "phase3", ""}}

Validate ==
    /\ call.fn = "params" /\ Len(ret) = 0
    /\ ret' = <<ValidateParams(call.p)>>
    /\ UNCHANGED <<call, chain, hvars>>

\* recipient strings, one of them another one followed by the character
\* 1, and decimal amounts
RecipientStrings == {Alice, Bob, Bob \o <<1>>}
AmountStrings == {<<1>>, <<2>>, <<1, 2>>}

\* the owner of key x signs an Unshield for one recipient and amount; the
\* keeper verifies the signature for another recipient and amount
AuthoriseCalls ==
    {[fn |-> "authorise", x |-> x, recipient |-> r, amount |-> a,
      other |-> [recipient |-> r2, amount |-> a2]] :
        x \in Keys, r \in RecipientStrings, a \in AmountStrings,
        r2 \in RecipientStrings, a2 \in AmountStrings}

Authorise ==
    /\ call.fn = "authorise" /\ Len(ret) = 0
    /\ ret' = <<PrepareUnshield(call.x, ScalarBaseMult(call.x),
                                call.recipient, call.amount)>>
    /\ UNCHANGED <<call, chain, hvars>>

Redeem ==
    /\ call.fn = "authorise" /\ Len(ret) = 1
    /\ ret' = Append(ret,
                VerifyUnshieldSignature(DepositOf(call.x), ret[1].Nullifier,
                    call.other.recipient, call.other.amount,
                    ret[1].Signature))
    /\ UNCHANGED <<call, chain, hvars>>

\* bytes of a coordinate of full width: 32 for the field of secp256k1, 2 for
\* the field of FieldP elements
FieldLen == 2

\* client/cli/tx.go: types.ECPoint{X: p.X.Bytes(), Y: p.Y.Bytes()}; a
\* coordinate that is k bytes short of the full width arrives k bytes short
\* of CoordLen
ClientECPoint(P) ==
    ECPoint(CoordLen - (FieldLen - Len(BigBytes(P[1]))),
            CoordLen - (FieldLen - Len(BigBytes(P[2]))), P)

\* the client builds the wire form of a curve point
EncodeCalls == {[fn |-> "encode", P |-> P] : P \in CurvePoints}

Encode ==
    /\ call.fn = "encode" /\ Len(ret) = 0
    /\ ret' = <<ClientECPoint(call.P)>>
    /\ UNCHANGED <<call, chain, hvars>>

\* 65 in the code: the prefix and two coordinates of full width
UncompressedLen == 1 + 2 * FieldLen

\* ECPoint.Bytes: 0x04, then copy(b[1:33], X.Bytes()) and
\* copy(b[33:65], Y.Bytes()): each coordinate from the first byte of its
\* slot of full width, the rest of the slot left zero
Bytes(P) ==
    LET xBytes == BigBytes(P[1])
        yBytes == BigBytes(P[2])
    IN <<4>> \o xBytes \o [i \in 1..(FieldLen - Len(xBytes)) |-> 0]
             \o yBytes \o [i \in 1..(FieldLen - Len(yBytes)) |-> 0]

Serialise ==
    /\ call.fn = "encode" /\ Len(ret) = 1
    /\ ret' = Append(ret, Bytes(call.P))
    /\ UNCHANGED <<call, chain, hvars>>

\* client/cli/tx.go: the transfer command after the input deposit has been
\* decrypted.  totalOutputAmount += amount over the parsed outputs, in uint64
RECURSIVE TotalOutputAmount(_, _, _)
TotalOutputAmount(total, amounts, i) ==
    IF i > Len(amounts) THEN total
    ELSE TotalOutputAmount(UintAdd(total, amounts[i]), amounts, i + 1)

\* the command's result: the error, or the message it submits
GetTxPrivateTransferCmd(inputAmount, amounts) ==
    IF \E i \in DOMAIN amounts : amounts[i] = 0
    THEN [err |-> "amount must be positive", outputs |-> <<>>]
    ELSE IF inputAmount # TotalOutputAmount(0, amounts, 1)
    THEN [err |-> "balance mismatch", outputs |-> <<>>]
    ELSE [err |-> "ok", outputs |-> amounts]

\* an owner of a deposit of inputAmount asks for outputs of these amounts
TransferCalls ==
    {[fn |-> "transfer", inputAmount |-> a, amounts |-> o] :
        a \in 0..MaxUint,
        o \in UNION {[1..n -> 0..MaxUint] : n \in 1..MaxOutputs}}

BuildTransfer ==
    /\ call.fn = "transfer" /\ Len(ret) = 0
    /\ ret' = <<GetTxPrivateTransferCmd(call.inputAmount, call.amounts)>>
    /\ UNCHANGED <<call, chain, hvars>>

LibInit ==
    /\ Genesis
    /\ ret = <<>>
    /\ \/ call \in StealthCalls
       \/ call \in SignCalls
       \/ call \in CommitCalls
       \/ call \in BalanceCalls
       \/ call \in NoteCalls
       \/ call \in PointCalls
       \/ call \in ParamsCalls
       \/ call \in AuthoriseCalls
       \/ call \in EncodeCalls
       \/ call \in TransferCalls

LibNext ==
    \/ Generate \/ Scan
    \/ Sign \/ Verify
    \/ CommitBoth \/ AddCommitments
    \/ Balance \/ Rebalance
    \/ Encrypt \/ Decrypt
    \/ Compress \/ Decompress
    \/ Validate
    \/ Authorise \/ Redeem
    \/ Encode \/ Serialise
    \/ BuildTransfer

LibSpec == LibInit /\ [][LibNext]_vars

\* the wallet has scanned an address
Scanned == call.fn = "stealth" /\ Len(ret) = 2

\* the address the wallet derives from its own keys and the transaction key
MyAddress ==
    PointAdd(ScalarBaseMult(HashToScalar(Hash256(ScalarMult(call.myV, ret[1].TxPublicKey)))),
             ScalarBaseMult(call.myS))

\* C21: the address GenerateStealthAddress makes for (V, S) is recognised by
\* CheckIfMine with the matching private keys, which returns (true, x) with
\* x*G = P; when the address derived from the caller's keys differs from P,
\* CheckIfMine returns (false, nil).
C21_StealthRoundTrip ==
    Scanned =>
        /\ call.myV = call.v /\ call.myS = call.s =>
              /\ ret[2].mine
              /\ ScalarBaseMult(ret[2].key) = ret[1].PublicKey
        /\ ret[2].mine => ScalarBaseMult(ret[2].key) = ret[1].PublicKey
        /\ MyAddress # ret[1].PublicKey =>
              ret[2] = [mine |-> FALSE, key |-> NilPointer]

\* the recipient has recognised an address and holds its private key, which
\* is not the spend key itself
C21_Witness ==
    /\ Scanned
    /\ call.myV = call.v /\ call.myS = call.s
    /\ ret[2].mine
    /\ ret[2].key # call.s
    /\ ScalarBaseMult(ret[2].key) = ret[1].PublicKey

\* the keeper has verified a signature
Verified == call.fn = "sign" /\ Len(ret) = 2

Added == call.fn = "commit" /\ Len(ret) = 3

\* C23: for all amounts a, b (unsigned 64-bit) and all blindings r1, r2,
\* CreateCommitment(a, r1).Add(CreateCommitment(b, r2)) equals
\* CreateCommitment(a+b, r1+r2).
C23_Homomorphic == Added => ret[3].sum = ret[3].direct

\* C23, amended: the sum of the two commitments is the commitment to a+b and
\* r1+r2 exactly when a+b does not exceed the largest amount.
C23_HomomorphicWithoutOverflow ==
    Added => (ret[3].sum = ret[3].direct <=> call.a + call.b <= MaxUint)

\* two blinded commitments to positive amounts add up to the commitment to
\* the sum of the amounts
C23_Witness ==
    /\ Added
    /\ call.a > 0 /\ call.b > 0 /\ call.a + call.b <= MaxUint
    /\ call.r1 > 0 /\ call.r2 > 0 /\ call.r1 + call.r2 > CurveN
    /\ ret[1] # ret[2]
    /\ ret[3].sum = ret[3].direct

\* the sum of a sequence of points in the group
RECURSIVE GroupSum(_)
GroupSum(points) ==
    IF Len(points) = 0 THEN 0
    ELSE (points[1] + GroupSum(Tail(points))) % CurveN

\* a balance of commitments that are all present was verified
BalanceVerified ==
    /\ call.fn = "balance" /\ Len(ret) >= 1
    /\ call.input # NilPointer
    /\ Len(call.outputs) > 0
    /\ \A i \in DOMAIN call.outputs : call.outputs[i] # NilPointer

\* C24: for a non-nil Cin and non-empty outs VerifyCommitmentBalance returns
\* true exactly when Cin equals the group sum of the commitments in outs; a
\* balance that verifies no longer does once any one output is replaced by a
\* different point.
C24_BalanceIsGroupSum ==
    BalanceVerified =>
        /\ ret[1] <=> call.input = GroupSum(call.outputs)
        /\ Len(ret) = 2 /\ ret[1] => ~ret[2].ok

\* a balance of three outputs verified and was refused after the last output
\* was replaced
C24_Witness ==
    /\ BalanceVerified
    /\ Len(call.outputs) = 3
    /\ ret[1]
    /\ Len(ret) = 2 /\ ret[2].i = 3 /\ ~ret[2].ok

\* a note was encrypted and a decryption was attempted
Decrypted == call.fn = "note" /\ Len(ret) = 2

\* the decryption was given what the encryption produced
Untouched ==
    /\ ret[2].ciphertext = ret[1].Ciphertext
    /\ ret[2].nonce = ret[1].Nonce
    /\ ret[2].secret = call.secret

\* C25: DecryptNote(EncryptNote(amount, blinding, secret), secret) returns
\* exactly (amount, blinding); decryption with a different shared secret, a
\* modified ciphertext or nonce, or a plaintext that is not of 40 bytes
\* returns an error and no plaintext.
C25_NoteRoundTrip ==
    Decrypted =>
        /\ Untouched =>
              ret[2].out = [amount |-> call.amount,
                            blinding |-> call.blinding, err |-> "none"]
        /\ ~Untouched =>
              /\ ret[2].out.err \in {"open", "length"}
              /\ ret[2].out = NoNote(ret[2].out.err)

\* a point was compressed and decompressed
Decompressed == call.fn = "point" /\ Len(ret) = 2

\* C26: for every on-curve point P, DecompressPoint(P.Compressed()) equals
\* P; the compressed form has 33 bytes, the prefix 0x02 or 0x03 followed by
\* X as a 32-byte big-endian value, also when X has leading zero bytes.
C26_CompressionRoundTrip ==
    Decompressed =>
        /\ Len(ret[1]) = CompressedLen
        /\ ret[1][1] = (IF call.P[2] % 2 = 0 THEN 2 ELSE 3)
        /\ SetBytes(Tail(ret[1])) = call.P[1]
        /\ ret[2].P = call.P

\* a point with an odd Y and an X of one byte came back from the root of
\* the other parity
C26_Witness ==
    /\ Decompressed
    /\ call.P[1] < 256
    /\ call.P[2] % 2 = 1
    /\ ret[2].root % 2 = 0
    /\ ret[2].P = call.P

\* a parameter set was validated
Validated == call.fn = "params" /\ Len(ret) = 1

\* C27: Params.Validate accepts a parameter set exactly when
\* MaxDepositsPerTx is in 1..128, MerkleTreeDepth is in 1..64, Phase is
\* "phase1" or "phase2", ProofSystem is "groth16" or "plonk", MaxMemoSize is
\* at most 4096 and NullifierCacheDuration is not negative; the default
\* parameters are accepted.
C27_ValidateAcceptsExactly ==
    Validated =>
        /\ ret[1] <=>
              /\ call.p.MaxDepositsPerTx \in 1..128
              /\ call.p.MerkleTreeDepth \in 1..64
              /\ call.p.Phase \in {"phase1", "phase2"}
              /\ call.p.ProofSystem \in {"groth16", "plonk"}
              /\ call.p.MaxMemoSize <= 4096
              /\ call.p.NullifierCacheDuration >= 0
        /\ call.p = DefaultParams => ret[1]

\* the default parameters were validated and accepted
C27_Witness == Validated /\ call.p = DefaultParams /\ ret[1]

\* withdrawals by the owner of a deposit, with its own key image, of one to
\* three coins
Withdrawals ==
    {Withdraw(k, k, i, d, <<a>>) :
        k \in Keys, i \in Indices, d \in Denoms, a \in 1..InitialBalance}

\* the amounts a deposit's commitment was made for by the client
ShieldedInto(deposit) ==
    {a \in 0..(CurveN - 1) : Commit(a) = deposit.Commitment}

\* C28: for each denomination the total minted by successful Unshield
\* operations never exceeds the total burned by successful Shield operations
\* (the supply never exceeds the initial one), and an Unshield that succeeds
\* releases no more than the amount shielded into the deposit it spends.
C28_ValueConserved ==
    /\ \A d \in Denoms : supply[d] <= Cardinality(Accounts) * InitialBalance
    /\ \A msg \in Withdrawals :
          /\ UnshieldResult(msg).err = "ok"
          /\ HasDeposit(Store, msg.Denom, msg.DepositIndex)
          => \A a \in ShieldedInto(GetDeposit(Store, msg.Denom, msg.DepositIndex)) :
                  NewIntFromString(msg.Amount).val <= a

\* C29: for a fixed deposit and nullifier, an Unshield signature that
\* verifies for (recipient, amount) verifies for no different pair
\* (recipient', amount').
C29_OnePairPerSignature ==
    call.fn = "authorise" /\ Len(ret) = 2 /\ ret[2] =>
        /\ call.other.recipient = call.recipient
        /\ call.other.amount = call.amount

\* a deposit without its nullifier field
Created(deposit) == [deposit EXCEPT !.Nullifier = NoNullifier]

RECURSIVE ValidateGenesisDeposits(_, _, _)
ValidateGenesisDeposits(list, i, seenIndices) ==
    IF i > Len(list) THEN "ok"
    ELSE IF list[i].Denom = "" THEN "ErrInvalidDenom"
    ELSE IF <<list[i].Denom, list[i].Index>> \in seenIndices
         THEN "ErrDuplicateDepositIndex"
    ELSE ValidateGenesisDeposits(list, i + 1,
             seenIndices \cup {<<list[i].Denom, list[i].Index>>})

\* the loop of ValidateGenesis over the used nullifiers
RECURSIVE ValidateGenesisNullifiers(_, _, _)
ValidateGenesisNullifiers(list, i, seenNullifiers) ==
    IF i > Len(list) THEN "ok"
    ELSE IF list[i].Nullifier.len = 0 THEN "ErrInvalidNullifier"
    ELSE IF list[i].Nullifier \in seenNullifiers THEN "ErrDuplicateNullifier"
    ELSE ValidateGenesisNullifiers(list, i + 1,
             seenNullifiers \cup {list[i].Nullifier})

ValidateGenesis(data) ==
    IF ~ValidateParams(data.Params) THEN "ErrInvalidParams"
    ELSE IF ValidateGenesisDeposits(data.Deposits, 1, {}) # "ok"
         THEN ValidateGenesisDeposits(data.Deposits, 1, {})
    ELSE ValidateGenesisNullifiers(data.UsedNullifiers, 1, {})

RECURSIVE LoadDeposits(_, _, _)
LoadDeposits(st, list, i) ==
    IF i > Len(list) THEN st
    ELSE LoadDeposits(SetDeposit(st, list[i]), list, i + 1)

RECURSIVE LoadIndices(_, _)
LoadIndices(st, indices) ==
    IF DOMAIN indices = {} THEN st
    ELSE LET denom == CHOOSE d \in DOMAIN indices : TRUE
         IN LoadIndices(SetNextDepositIndex(st, denom, indices[denom]),
                        [d \in DOMAIN indices \ {denom} |-> indices[d]])

RECURSIVE LoadNullifiers(_, _, _)
LoadNullifiers(st, list, i) ==
    IF i > Len(list) THEN st
    ELSE LoadNullifiers(SetNullifierUsed(st, list[i]), list, i + 1)

\* the store InitGenesis leaves, written over the empty store st
InitGenesis(st, data) ==
    LoadNullifiers(
        LoadIndices(LoadDeposits(st, data.Deposits, 1), data.NextDepositIndices),
        data.UsedNullifiers, 1)

\* the store and the bank before the module is initialised
EmptyStore ==
    [deposits |-> <<>>, next |-> [d \in AllDenoms |-> 0], used |-> <<>>,
     bal |-> [a \in Accounts |-> [d \in AllDenoms |-> InitialBalance]],
     mod |-> [d \in AllDenoms |-> 0],
     supply |-> [d \in AllDenoms |-> Cardinality(Accounts) * InitialBalance]]

\* a deposit of an earlier chain, made for the one-time key 2
GenesisDeposit(denom, index) ==
    NewDeposit(denom, index, Commit(2), Address(GoodPoint(OneTimeAddr(2))),
               GoodNote)

\* genesis files: no, one or two deposits, among them a duplicate and one
\* without denomination; next indices absent, below, at and above the
\* deposits; a used nullifier or none
GenesisStates ==
    {[Params |-> p, Deposits |-> ds, NextDepositIndices |-> nx,
      UsedNullifiers |-> un] :
        p \in {DefaultParams, EnabledParams("phase1"),
               [EnabledParams("phase1") EXCEPT !.MerkleTreeDepth = 0]},
        ds \in {<<>>, <<GenesisDeposit("ulight", 0)>>,
                <<GenesisDeposit("ulight", 1)>>,
                <<GenesisDeposit("ulight", 0), GenesisDeposit("ulight", 1)>>,
                <<GenesisDeposit("ulight", 0), GenesisDeposit("ulight", 0)>>,
                <<GenesisDeposit("", 0)>>},
        nx \in {<<>>} \cup {[d \in {"ulight"} |-> n] : n \in 0..2},
        un \in {<<>>, <<UsedNullifier(KeyImage(2), "ulight")>>,
                <<UsedNullifier(NoNullifier, "ulight")>>,
                <<UsedNullifier(KeyImage(2), "ulight"),
                  UsedNullifier(KeyImage(2), "ulight")>>}}

\* the chain starts from a genesis file ValidateGenesis accepts
GenesisInit ==
    \E data \in GenesisStates :
        /\ ValidateGenesis(data) = "ok"
        /\ params = data.Params
        /\ deposits = InitGenesis(EmptyStore, data).deposits
        /\ nextDepositIndex = InitGenesis(EmptyStore, data).next
        /\ usedNullifiers = InitGenesis(EmptyStore, data).used
        /\ balances = EmptyStore.bal
        /\ moduleBalance = EmptyStore.mod
        /\ supply = EmptyStore.supply
        /\ cachedH = NilPointer
        /\ pc = [c \in Callers |-> "check"]
        /\ derived = [c \in Callers |-> NilPointer]
        /\ result = [c \in Callers |-> NilPointer]
        /\ call = NoCall
        /\ ret = <<>>

GenesisNext == ShieldTx \/ PrivateTransferTx

GenesisSpec == GenesisInit /\ [][GenesisNext]_vars

\* C31: from every genesis state that ValidateGenesis accepts and
\* InitGenesis loads, no Shield and no PrivateTransfer output is written to
\* a (denom, index) that already holds a deposit: every stored deposit keeps
\* its commitment, its one-time address and its note.
C31_GenesisDepositsKept ==
    [][\A key \in DOMAIN deposits :
          /\ key \in DOMAIN deposits'
          /\ deposits'[key].Commitment = deposits[key].Commitment
          /\ deposits'[key].OneTimeAddress = deposits[key].OneTimeAddress
          /\ deposits'[key].EncryptedNote = deposits[key].EncryptedNote]_vars

(***************************************************************************)
(* The queries (grpc_query.go).  A query reads the store and writes        *)
(* nothing; its response is the value of its operator on the state.        *)
(***************************************************************************)
\* the width of the counters of the queries (uint64 in the code)
CountBits == 8
Uint(v) == v % (2 ^ CountBits)

\* the used nullifiers recorded for a denomination
SpentCount(st, denom) ==
    Cardinality({n \in DOMAIN st.used : st.used[n].Denom = denom})

\* the loop of Stats over the allowed denominations not yet visited
RECURSIVE StatsLoop(_, _, _)
StatsLoop(st, denoms, acc) ==
    IF denoms = {} THEN acc
    ELSE LET denom == CHOOSE d \in denoms : TRUE
             nextIndex == GetNextDepositIndex(st, denom)
             spentCount == SpentCount(st, denom)
         IN IF nextIndex = 0 THEN StatsLoop(st, denoms \ {denom}, acc)
            ELSE StatsLoop(st, denoms \ {denom},
                     [TotalDeposits |-> Uint(acc.TotalDeposits + nextIndex),
                      TotalSpent |-> Uint(acc.TotalSpent + spentCount),
                      DenomStats |-> acc.DenomStats \cup
                          {[Denom |-> denom, TotalDeposits |-> nextIndex,
                            ActiveDeposits |-> Uint(nextIndex - spentCount)]}])

Stats(p, st) ==
    LET sums == StatsLoop(st, p.AllowedDenoms,
                    [TotalDeposits |-> 0, TotalSpent |-> 0, DenomStats |-> {}])
    IN [TotalDeposits |-> sums.TotalDeposits,
        TotalSpent |-> sums.TotalSpent,
        ActiveDeposits |-> Uint(sums.TotalDeposits - sums.TotalSpent),
        DenomStats |-> sums.DenomStats,
        Phase |-> p.Phase]

\* the stored deposits of a denomination that carry no nullifier
Unspent(denom) ==
    {key \in DOMAIN deposits :
        key[1] = denom /\ deposits[key].Nullifier = NoNullifier}

\* C32: in every reachable state the Stats query reports a TotalSpent that
\* does not exceed TotalDeposits and, for each denomination it reports, an
\* ActiveDeposits that is TotalDeposits minus the used-nullifier count as
\* integers (no wrap-around) and that equals the number of stored deposits
\* of the denomination without a nullifier.
C32_StatsConsistent ==
    /\ Stats(params, Store).TotalSpent <= Stats(params, Store).TotalDeposits
    /\ \A ds \in Stats(params, Store).DenomStats :
          /\ ds.ActiveDeposits = ds.TotalDeposits - SpentCount(Store, ds.Denom)
          /\ ds.ActiveDeposits = Cardinality(Unspent(ds.Denom))

\* the loop of DepositsByRange from index i on
RECURSIVE RangeLoop(_, _, _, _, _)
RangeLoop(st, denom, i, actualEndIndex, found) ==
    IF ~(i < actualEndIndex) THEN found
    ELSE IF ~HasDeposit(st, denom, i) THEN found
    ELSE RangeLoop(st, denom, i + 1, actualEndIndex,
                   Append(found, GetDeposit(st, denom, i)))

NoRange(err) == [err |-> err, Deposits |-> <<>>, StartIndex |-> 0, EndIndex |-> 0]

\* a range query without the cap
DepositsByRange_Uncapped(st, req) ==
    IF req.Denom = "" THEN NoRange("InvalidArgument")
    ELSE IF req.StartIndex >= req.EndIndex THEN NoRange("InvalidArgument")
    ELSE LET found == RangeLoop(st, req.Denom, req.StartIndex, req.EndIndex, <<>>)
         IN [err |-> "ok", Deposits |-> found, StartIndex |-> req.StartIndex,
             EndIndex |-> Uint(req.StartIndex + Len(found))]

DepositsByRange(st, req) ==
    IF req.Denom = "" THEN NoRange("InvalidArgument")
    ELSE IF req.StartIndex >= req.EndIndex THEN NoRange("InvalidArgument")
    ELSE LET rangeSize == Uint(req.EndIndex - req.StartIndex)
             actualEndIndex == IF rangeSize > maxRangeSize
                               THEN Uint(req.StartIndex + maxRangeSize)
                               ELSE req.EndIndex
             found == RangeLoop(st, req.Denom, req.StartIndex, actualEndIndex, <<>>)
         IN [err |-> "ok", Deposits |-> found, StartIndex |-> req.StartIndex,
             EndIndex |-> Uint(req.StartIndex + Len(found))]

\* indices at the start of the store and at the end of the counters' range
RangeIndices == (0..4) \cup {2 ^ CountBits - 2, 2 ^ CountBits - 1}

RangeRequests ==
    {[Denom |-> d, StartIndex |-> a, EndIndex |-> b] :
        d \in Denoms \cup {""}, a \in RangeIndices, b \in RangeIndices}

\* the indices from start on, below limit, up to the first that holds no
\* deposit
Run(denom, start, limit) ==
    {i \in start..(limit - 1) :
        \A j \in start..i : DepositKey(denom, j) \in DOMAIN deposits}

Min(a, b) == IF a < b THEN a ELSE b

\* C37: DepositsByRange(start, end) rejects start >= end and otherwise
\* returns the deposits at the consecutive indices start, start+1, ... below
\* min(end, start + maxRangeSize), stopping at the first index that holds no
\* deposit; the EndIndex it reports is start plus the number of deposits
\* returned.
C37_RangeIsRun ==
    \A req \in RangeRequests :
        LET res == DepositsByRange(Store, req)
            run == Run(req.Denom, req.StartIndex,
                       Min(req.EndIndex, req.StartIndex + maxRangeSize))
        IN /\ req.StartIndex >= req.EndIndex => res.err # "ok"
           /\ req.StartIndex < req.EndIndex /\ req.Denom # "" =>
                 /\ res.err = "ok"
                 /\ Len(res.Deposits) = Cardinality(run)
                 /\ \A n \in 1..Len(res.Deposits) :
                       res.Deposits[n] = deposits[<<req.Denom, req.StartIndex + n - 1>>]
                 /\ res.StartIndex = req.StartIndex
                 /\ res.EndIndex = req.StartIndex + Len(res.Deposits)

\* three deposits are stored in a row; a query for all of them returns the
\* first two, and a query from the second on stops where the store ends
C37_Witness ==
    /\ {<<"ulight", 0>>, <<"ulight", 1>>, <<"ulight", 2>>} \subseteq DOMAIN deposits
    /\ <<"ulight", 3>> \notin DOMAIN deposits
    /\ Len(DepositsByRange(Store, [Denom |-> "ulight", StartIndex |-> 0,
                                   EndIndex |-> 3]).Deposits) = maxRangeSize
    /\ DepositsByRange(Store, [Denom |-> "ulight", StartIndex |-> 2,
                               EndIndex |-> 4]).EndIndex = 3

(***************************************************************************)
(* client/cli/query.go: the scan command.                                  *)
(***************************************************************************)
\* protoPointToCryptoQuery succeeds
protoPointToCryptoQuery(point) ==
    point.xlen = CoordLen /\ point.ylen = CoordLen /\ IsOnCurve(point.pt)

\* the deposit passes the conversions and CheckIfMine recognises it; the
\* note of a deposit made for these keys decrypts under their shared secret
IsMine(deposit, viewPrivKey, spendPrivKey) ==
    /\ protoPointToCryptoQuery(deposit.OneTimeAddress.Address)
    /\ protoPointToCryptoQuery(deposit.OneTimeAddress.TxPublicKey)
    /\ protoPointToCryptoQuery(deposit.Commitment)
    /\ CheckIfMine(deposit.OneTimeAddress.Address.pt,
                   deposit.OneTimeAddress.TxPublicKey.pt, viewPrivKey,
                   ScalarBaseMult(spendPrivKey), spendPrivKey).mine

\* the end index the scan command asks for when the flag is 0
DefaultEndIndex(p, st, denom) ==
    LET stat == {ds \in Stats(p, st).DenomStats : ds.Denom = denom}
    IN IF stat = {} THEN 0
       ELSE IF (CHOOSE ds \in stat : TRUE).TotalDeposits > 0
            THEN Uint((CHOOSE ds \in stat : TRUE).TotalDeposits - 1)
       ELSE 0

\* what the scan command examines and what it reports as owned
GetQueryScanCmd(p, st, denom, startIndex, endIndexFlag, viewPrivKey, spendPrivKey) ==
    LET endIndex == IF endIndexFlag = 0 THEN DefaultEndIndex(p, st, denom)
                    ELSE endIndexFlag
        res == DepositsByRange(st, [Denom |-> denom, StartIndex |-> startIndex,
                                    EndIndex |-> endIndex])
    IN IF endIndexFlag = 0 /\ endIndex = 0 /\ startIndex = 0
       THEN [err |-> "ok", scanned |-> {}, owned |-> {}]
       ELSE IF res.err # "ok" THEN [err |-> res.err, scanned |-> {}, owned |-> {}]
       ELSE [err |-> "ok",
             scanned |-> {res.Deposits[n].Index : n \in DOMAIN res.Deposits},
             owned |-> {res.Deposits[n].Index :
                          n \in {m \in DOMAIN res.Deposits :
                                   IsMine(res.Deposits[m], viewPrivKey,
                                          spendPrivKey)}}]

\* the view and spend keys of the recipient whose one-time key, for the
\* transaction key of the model's deposits, is 1
ScanViewKey == 2
ScanSpendKey == 2

\* C33: with the default index flags the scan command examines every
\* stored deposit of an allowed denomination and reports every one of them
\* that belongs to the supplied keys.
C33_ScanFindsAll ==
    \A denom \in params.AllowedDenoms :
        \A key \in {k \in DOMAIN deposits : k[1] = denom} :
            LET scan == GetQueryScanCmd(params, Store, denom, 0, 0,
                                        ScanViewKey, ScanSpendKey)
            IN /\ key[2] \in scan.scanned
               /\ IsMine(deposits[key], ScanViewKey, ScanSpendKey) =>
                     key[2] \in scan.owned

\* the client has built the wire form of a point
Encoded == call.fn = "encode" /\ Len(ret) >= 1

\* C34: every curve point the client places in a message, those with a
\* short coordinate included, has X and Y of exactly CoordLen bytes and
\* passes the ledger's validateECPoint.
C34_ClientPointsPass ==
    Encoded =>
        /\ ret[1].xlen = CoordLen /\ ret[1].ylen = CoordLen
        /\ validateECPoint(ret[1])

\* Bytes() has been applied to the point
Serialised == call.fn = "encode" /\ Len(ret) = 2

\* v as a big-endian value of full width, left-padded with zeros
BigEndian(v) == [i \in 1..(FieldLen - Len(BigBytes(v))) |-> 0] \o BigBytes(v)

\* C35: Bytes() of a point is 0x04, X as a big-endian value of full width,
\* Y as a big-endian value of full width, and no other curve point has the
\* same encoding.
C35_BytesFixedWidth ==
    Serialised =>
        /\ Len(ret[2]) = UncompressedLen
        /\ ret[2] = <<4>> \o BigEndian(call.P[1]) \o BigEndian(call.P[2])
        /\ \A Q \in CurvePoints : Q # call.P => Bytes(Q) # ret[2]

\* the transfer command has run
TransferBuilt == call.fn = "transfer" /\ Len(ret) = 1

\* the sum of the amounts as integers
RECURSIVE IntegerSum(_)
IntegerSum(amounts) ==
    IF Len(amounts) = 0 THEN 0 ELSE Head(amounts) + IntegerSum(Tail(amounts))

\* C36: the transfer command submits a PrivateTransfer only when the
\* output amounts, added as integers, equal the decrypted amount of the
\* input deposit.
C36_SubmitsOnlyBalanced ==
    TransferBuilt /\ ret[1].err = "ok" =>
        IntegerSum(call.amounts) = call.inputAmount

====
